---- MODULE Spec2Model ----
(***************************************************************************)
(* Translation Cache Layer (TCL) of the To-fu firmware.                    *)
(*                                                                         *)
(* SpecEM    : the entry manager tcl_entry_manager.c (tcl_entry_add,      *)
(*             tcl_entry_evict, tcl_entry_clear_expired) with tcl_get of   *)
(*             translation_cache_layer.c, over the tcl_state.entries array.*)
(* SpecLru   : tcl_entry_add and tcl_get alone, under the LRU policy.      *)
(* SpecSet   : tcl_set and tcl_get of translation_cache_layer.c over the   *)
(*             same array.                                                 *)
(* SpecMeta  : tcl_set with caller-supplied metadata, and tcl_get.         *)
(* SpecCollide : tcl_set and tcl_get for requests that share a key.        *)
(* SpecKey   : the key generator tcl_key_generator.c.                      *)
(* SpecLife  : init and use of the cache, the entry manager, the key       *)
(*             generator and the durable store, from program start.        *)
(* SpecDetect : the language detection service: the primary detector, the  *)
(*             script fallback and POST /api/detect-language.              *)
(* SpecLdCache : the detection cache: ld_cache_lookup and ld_cache_update   *)
(*             as the clock advances.                                      *)
(* SpecRead  : the multi-level coordinator                                 *)
(*             translation_cache_layer_additional.c (tcl_get_entry,        *)
(*             tcl_set_entry) over the memory cache                        *)
(*             (L1), the Redis adapter tcl_redis.c (L2) and the persistent *)
(*             cache (L3), as the clock advances.                          *)
(* SpecWrite : the coordinator's tcl_get_entry, tcl_set_entry,             *)
(*             tcl_update_entry and tcl_delete_entry at one instant.       *)
(* SpecConc  : tcl_set and tcl_get of translation_cache_layer.c called by  *)
(*             several callers in parallel, one shared-memory access per   *)
(*             step.                                                       *)
(* SpecLoad  : tcl_storage.c: batches saved, damaged and loaded again.     *)
(* SpecFlush : tcl_storage.c: init, save, clear and deinit of              *)
(*             storage_state, and tcl_redis_schema_migrate.                *)
(*                                                                         *)
(* Times are milliseconds.  An absent pointer (NULL) is the value 0.       *)
(***************************************************************************)
EXTENDS Integers, Sequences, FiniteSets, TLC

----------------------------------------------------------------------------
(* Bounds of the model *)

\* capacity of the memory tier (tcl_state.config.max_entries)
MaxEntries == 2
\* number of distinct source texts the callers use
NumTexts == 3
\* number of clock advances
MaxTicks == 2
\* number of calls in one run
MaxOps == 4
\* the keys of the multi-level cache
NumKeys == 2
\* capacity of the multi-level memory cache (L1)
MaxL1 == 1
\* the tier failures (refused allocation, Redis fault, storage error) one run meets
MaxFaults == 1
\* callers of the memory tier that run in parallel
NumThreads == 2
\* entries in one tcl_storage_save_batch call
MaxBatch == 2
\* the longest source text handed to the key generator
MaxKeyLen == 1
\* the longest text body handed to the language detectors
MaxTextLen == 2

----------------------------------------------------------------------------
(* Program constants *)

TCL_STATUS_OK == 0
TCL_STATUS_ERROR_INVALID_PARAM == -1
TCL_STATUS_ERROR_MEMORY == -2
TCL_STATUS_ERROR_NOT_FOUND == -3
TCL_STATUS_ERROR_REDIS == -10
TCL_STATUS_ERROR_STORAGE == -11
TCL_STATUS_ERROR_INVALID_FORMAT == -12
TCL_STATUS_ERROR_NOT_INITIALIZED == -5
TCL_STATUS_ERROR_ALREADY_INITIALIZED == -6
TCL_STATUS_ERROR_INTERNAL == -9
TCL_STATUS_ERROR_EMPTY == -15
TCL_REDIS_SCHEMA_VERSION == 1
\* the version word tcl_storage_save_batch writes after the magic
BATCH_VERSION == 1
FNV_PRIME == 16777619
TCL_KEY_MAX_LENGTH == 256
TCL_KEY_METHOD_FNV1A == 0
TCL_KEY_METHOD_MURMUR3 == 1
MIN_TEXT_LENGTH == 10
VERY_SHORT_TEXT_LENGTH == 5
\* named by tcl_key_generate; the status enumeration gives it no value
TCL_STATUS_ERROR_NOT_IMPLEMENTED == -16

TCL_EVICT_LRU == 0
TCL_EVICT_LFU == 1
TCL_EVICT_FIFO == 2
TCL_EVICT_RANDOM == 3

TCL_DEFAULT_EVICTION_BATCH == 10
TCL_DEFAULT_AUTO_EXTEND_TTL == TRUE
TCL_DEFAULT_TTL_EXTENSION_MS == 6 * 60 * 60 * 1000

\* tcl_redis_cache_set converts the ttl to seconds: entry->ttl / 1000
MsPerSec == 1000

\* the clock advances in steps of 0.6 s
TickMs == (3 * MsPerSec) \div 5

Texts == 1 .. NumTexts
Translations == {1, 2}
TtlChoices == {TickMs}

----------------------------------------------------------------------------
VARIABLES
    now,            \* tcl_get_time_ms() / sys_get_time_ms()
    ticks,          \* clock advances so far
    ops,            \* operations so far
    \* ---- memory tier: tcl_state and entry_manager_state
    entries,        \* tcl_state.entries[0 .. entry_count-1]
    stats,          \* tcl_state.stats
    config,         \* tcl_state.config
    em_config,      \* entry_manager_state.config
    lastOp,         \* the last call and what it returned
    fresh,          \* per text: the entry of the last successful tcl_set that
                    \* no get has read and no removal has touched since
    hist,           \* the tcl_entry_add calls since init, while nothing else ran
    \* ---- multi-level cache: tcl_multi_level_cache_t
    l1,             \* cache->memory_cache: key -> entry
    l2,             \* the Redis server behind cache->redis_cache:
                    \* key -> serialized entry and its native expiry time
    l3,             \* cache->persistent_cache: key -> entry
    metrics,        \* the per-tier metrics and cache->total_metrics
    faults,         \* tier failures met so far
    promo,          \* per key: the entry the last get took from L2, while
                    \* the key was neither evicted from L1 nor deleted since
    mop,            \* the last multi-level call and what it returned
    \* ---- tcl_state under callers that run in parallel
    slots,          \* the memory of tcl_state.entries[], and what follows it
    ecount,         \* tcl_state.entry_count
    thread,         \* per caller: the call it is in and its locals
    \* ---- durable storage and the Redis schema
    dir,            \* the files in storage_state.config.storage_path
    storage_state,  \* storage_state of tcl_storage.c
    meta,           \* the Redis keys meta:version and meta:schemas
    sop,            \* the last storage or schema call and what it returned
    durable,        \* the batch of the last successful save, and how far the
                    \* store has come since: saved, down, ready (up again)
    \* ---- the key generator
    key_gen_state,  \* key_gen_state of tcl_key_generator.c
    kop,            \* the last tcl_key_generate call and what it returned
    kprev,          \* the tcl_key_generate call before that
    \* ---- lifecycle
    initialized,    \* tcl_state.initialized and entry_manager_state.initialized
    \* ---- the language detection service
    dop,            \* the last detection call: its request and its outcome
    \* ---- the detection cache
    ld_state,       \* ld_state.config and ld_state.cache
    lop,            \* the last detection-cache call and what it returned
    \* ---- the Redis adapter's connection pool
    redis_state,    \* redis_state of tcl_redis.c
    redis_env,      \* the connections open at the server and the pools on
                    \* the heap
    rop             \* the last adapter call and what it returned

memVars == <<entries, stats, config, em_config, lastOp, fresh, hist>>
multiVars == <<l1, l2, l3, metrics, faults, promo, mop>>
concVars == <<slots, ecount, thread>>
\* the state of the parts added to the memory tier and the coordinator
storVars == <<dir, storage_state, meta, sop, durable>>
keyVars == <<key_gen_state, kop, kprev>>
lifeVars == <<initialized>>
detVars == <<dop>>
ldVars == <<ld_state, lop>>
poolVars == <<redis_state, redis_env, rop>>
auxVars == <<ldVars, poolVars>>
extVars == <<concVars, storVars, keyVars, lifeVars, detVars, auxVars>>
vars == <<now, ticks, ops, memVars, multiVars, extVars>>

----------------------------------------------------------------------------
(* Entries *)

\* a slot after memset(entry, 0, sizeof(tcl_entry_t))
ZeroEntry ==
    [source_text |-> 0, translation |-> 0, timestamp |-> 0, ttl |-> 0,
     usage_count |-> 0, last_used |-> 0]

entry_count == Len(entries)

----------------------------------------------------------------------------
(* The key generator *)

\* a text is the sequence of its bytes
Space == 32
UpperA == 65
LowerA == 97
KeyBytes == {Space, UpperA, LowerA}

RECURSIVE SeqsUpTo(_, _)
SeqsUpTo(S, n) ==
    IF n = 0 THEN {<<>>}
    ELSE LET shorter == SeqsUpTo(S, n - 1)
         IN shorter \cup {Append(s, b) : s \in shorter, b \in S}

KeyTexts == SeqsUpTo(KeyBytes, MaxKeyLen)

isspace(c) == c \in {9, 10, 11, 12, 13, 32}
tolower(c) == IF c \in 65 .. 90 THEN c + 32 ELSE c

\* for (i = 0; input[i] && j < output_size - 1; i++) ...
RECURSIVE normalize_from(_, _, _, _)
normalize_from(input, i, output, output_size) ==
    IF i > Len(input) \/ Len(output) >= output_size - 1 THEN output
    ELSE normalize_from(input, i + 1,
                        IF isspace(input[i]) THEN output
                        ELSE Append(output, tolower(input[i])),
                        output_size)

normalize_text(input, output_size) == normalize_from(input, 1, <<>>, output_size)

\* a uint32_t is the pair <<high 16 bits, low 16 bits>>
Half == 65536
\* 2166136261u = 0x811C9DC5
FNV_OFFSET_BASIS == <<33052, 40389>>

RECURSIVE BitXor(_, _, _)
BitXor(a, b, bits) ==
    IF bits = 0 THEN 0
    ELSE (((a % 2) + (b % 2)) % 2) + 2 * BitXor(a \div 2, b \div 2, bits - 1)

\* hash ^= (uint8_t)text[i]; hash *= FNV_PRIME;  in 32 bits
fnv1a_step(hash, byte) ==
    LET hi == hash[1]
        lo == ((hash[2] \div 256) * 256) + BitXor(hash[2] % 256, byte, 8)
        ph == FNV_PRIME \div Half
        pl == FNV_PRIME % Half
        low == lo * pl
    IN << ((hi * pl) + (lo * ph) + (low \div Half)) % Half, low % Half >>

RECURSIVE fnv1a_from(_, _, _)
fnv1a_from(hash, text, i) ==
    IF i > Len(text) THEN hash
    ELSE fnv1a_from(fnv1a_step(hash, text[i]), text, i + 1)

generate_fnv1a_hash(text) == fnv1a_from(FNV_OFFSET_BASIS, text, 1)

RECURSIVE Digits(_)
Digits(n) == IF n < 10 THEN 1 ELSE 1 + Digits(n \div 10)

KeyDown == [initialized |-> FALSE,
            config |-> [method |-> TCL_KEY_METHOD_FNV1A,
                        normalize_text |-> FALSE, include_timestamp |-> FALSE]]
\* tcl_key_init(NULL)
DefaultKeyConfig ==
    [method |-> TCL_KEY_METHOD_FNV1A,
     normalize_text |-> TRUE, include_timestamp |-> FALSE]

NoKey == <<>>
NoKop == [op |-> "none", text |-> <<>>, source_lang |-> "", target_lang |-> "",
          status |-> TCL_STATUS_OK, key |-> NoKey]

\* a rational number is the pair <<numerator, denominator>>
NoResult == [ok |-> FALSE, error |-> "", detectedLang |-> "", confidence |-> <<0, 1>>]
NoDop == [op |-> "none", text |-> <<>>, minConfidence |-> <<0, 1>>,
          given |-> FALSE, textPreprocessing |-> FALSE, franc |-> "",
          final |-> <<0, 1>>,
          calls |-> <<>>, status |-> 0, method |-> "",
          primary |-> NoResult, result |-> NoResult]
InitDetect == dop = NoDop

\* the detection cache before its first call: caching enabled, L1 empty
NoLdEntry == [text |-> 0, hash |-> 0, timestamp |-> 0, access_count |-> 0,
              result |-> 0]
NoLop == [op |-> "none", text |-> 0, status |-> 0, found |-> FALSE,
          result |-> 0, full |-> FALSE, inserted |-> FALSE]
InitLdIdle ==
    /\ ld_state = [enable_caching |-> TRUE, l1_entries |-> <<>>]
    /\ lop = NoLop

\* the Redis adapter before tcl_redis_init: redis_state = {0}
NoRedisConfig == [host |-> 0, port |-> 0, pool_size |-> 0]
RedisDown == [initialized |-> FALSE, config |-> NoRedisConfig, pool |-> <<>>,
              pool_size |-> 0]
NoRedisEnv == [open |-> 0, pools |-> 0]
NoRop == [op |-> "none", status |-> 0, before |-> RedisDown, env |-> NoRedisEnv]
InitPoolIdle ==
    /\ redis_state = RedisDown
    /\ redis_env = NoRedisEnv
    /\ rop = NoRop
InitAux == InitLdIdle /\ InitPoolIdle

\* after tcl_init and tcl_entry_manager_init
InitUp == initialized = [tcl_state |-> TRUE, entry_manager_state |-> TRUE]

InitKey ==
    /\ key_gen_state = KeyDown
    /\ kop = NoKop
    /\ kprev = NoKop

\* the text that is hashed, without normalization
text_to_hash_raw(source_text, cfg) == source_text
\* the text that is hashed
text_to_hash(source_text, cfg) ==
    IF cfg.normalize_text THEN normalize_text(source_text, TCL_KEY_MAX_LENGTH)
    ELSE source_text

\* The key "%s:%s:%08x" or "%s:%s:%08x:%lu" is the tuple of its fields: the
\* language codes hold no colon and the hash is printed at a fixed width.
tcl_key_generate(st, source_text, source_lang, target_lang, buffer_size, t) ==
    IF ~st.initialized
    THEN [status |-> TCL_STATUS_ERROR_NOT_INITIALIZED, key |-> NoKey]
    ELSE IF st.config.method # TCL_KEY_METHOD_FNV1A
    THEN [status |-> TCL_STATUS_ERROR_NOT_IMPLEMENTED, key |-> NoKey]
    ELSE LET hash == generate_fnv1a_hash(text_to_hash(source_text, st.config))
             written == Len(source_lang) + 1 + Len(target_lang) + 1 + 8
                        + (IF st.config.include_timestamp
                           THEN 1 + Digits(t) ELSE 0)
         IN IF written >= buffer_size
            THEN [status |-> TCL_STATUS_ERROR_INVALID_PARAM, key |-> NoKey]
            ELSE [status |-> TCL_STATUS_OK,
                  key |-> IF st.config.include_timestamp
                          THEN <<source_lang, target_lang, hash, t>>
                          ELSE <<source_lang, target_lang, hash>>]

\* the source texts of the cache's requests: "a", "b", ...; and two more
\* that are different words with one FNV-1a hash
Altarage == NumTexts + 1
Zinke == NumTexts + 2
AllTexts == 1 .. (NumTexts + 2)
TextBytes(text) ==
    IF text = Altarage THEN <<97, 108, 116, 97, 114, 97, 103, 101>>
    ELSE IF text = Zinke THEN <<122, 105, 110, 107, 101>>
    ELSE <<LowerA - 1 + text>>

KeyTable ==
    [text \in AllTexts |->
        tcl_key_generate([initialized |-> TRUE, config |-> DefaultKeyConfig],
                         TextBytes(text), "en", "fr", TCL_KEY_MAX_LENGTH, 0).key]

\* the key of a request; the language pair is fixed to en:fr
tcl_generate_key(source_text) == KeyTable[source_text]

\* now - timestamp > ttl
Expired(e, t) == t - e.timestamp > e.ttl

\* first slot below entry_count that holds an entry with this key; 0 if none
tcl_find_entry(s, key) ==
    LET hits == {i \in 1 .. Len(s) :
                    /\ s[i].source_text # 0
                    /\ tcl_generate_key(s[i].source_text) = key}
    IN IF hits = {} THEN 0 ELSE CHOOSE i \in hits : \A j \in hits : i <= j

\* tcl_free_entry + "move last entry to this position if not already last"
\* + entry_count--
RemoveSlot(s, i) ==
    IF i = Len(s) THEN SubSeq(s, 1, Len(s) - 1)
    ELSE SubSeq(s, 1, i - 1) \o <<s[Len(s)]>> \o SubSeq(s, i + 1, Len(s) - 1)

\* The victim scans run j = 0 .. entry_count-1 and keep the first slot that is
\* strictly below the best so far: the first slot holding the minimum.
LruIdxNewest(s) ==
    CHOOSE i \in 1 .. Len(s) : \A j \in 1 .. Len(s) : s[i].last_used >= s[j].last_used

LruIdx(s) ==
    CHOOSE i \in 1 .. Len(s) :
        /\ \A j \in 1 .. Len(s) : s[i].last_used <= s[j].last_used
        /\ \A j \in 1 .. (i - 1) : s[j].last_used > s[i].last_used

LfuIdx(s) ==
    CHOOSE i \in 1 .. Len(s) :
        /\ \A j \in 1 .. Len(s) : s[i].usage_count <= s[j].usage_count
        /\ \A j \in 1 .. (i - 1) : s[j].usage_count > s[i].usage_count

FifoIdx(s) ==
    CHOOSE i \in 1 .. Len(s) :
        /\ \A j \in 1 .. Len(s) : s[i].timestamp <= s[j].timestamp
        /\ \A j \in 1 .. (i - 1) : s[j].timestamp > s[i].timestamp

RECURSIVE evict_lru_entries(_, _)
evict_lru_entries(s, count) ==
    IF count = 0 \/ Len(s) = 0 THEN s
    ELSE evict_lru_entries(RemoveSlot(s, LruIdx(s)), count - 1)

RECURSIVE evict_lfu_entries(_, _)
evict_lfu_entries(s, count) ==
    IF count = 0 \/ Len(s) = 0 THEN s
    ELSE evict_lfu_entries(RemoveSlot(s, LfuIdx(s)), count - 1)

RECURSIVE evict_fifo_entries(_, _)
evict_fifo_entries(s, count) ==
    IF count = 0 \/ Len(s) = 0 THEN s
    ELSE evict_fifo_entries(RemoveSlot(s, FifoIdx(s)), count - 1)

\* rand() % entry_count: every index is possible; the set of outcomes
RECURSIVE evict_random_entries(_, _)
evict_random_entries(s, count) ==
    IF count = 0 \/ Len(s) = 0 THEN {s}
    ELSE UNION {evict_random_entries(RemoveSlot(s, i), count - 1) : i \in 1 .. Len(s)}

\* the set of arrays tcl_entry_evict(count) can leave (one, but for RANDOM)
tcl_entry_evict(s, count) ==
    IF count = 0 THEN {s}
    ELSE CASE em_config.policy = TCL_EVICT_LRU -> {evict_lru_entries(s, count)}
           [] em_config.policy = TCL_EVICT_LFU -> {evict_lfu_entries(s, count)}
           [] em_config.policy = TCL_EVICT_FIFO -> {evict_fifo_entries(s, count)}
           [] OTHER -> evict_random_entries(s, count)

tcl_entry_get_free_space == config.max_entries - entry_count

\* tcl_entry_clear_expired: the loop from slot i on; a removed slot is
\* refilled from the end and looked at again
RECURSIVE ClearExpiredFrom(_, _, _)
ClearExpiredFrom(s, i, t) ==
    IF i > Len(s) THEN s
    ELSE IF Expired(s[i], t) THEN ClearExpiredFrom(RemoveSlot(s, i), i, t)
    ELSE ClearExpiredFrom(s, i + 1, t)

\* at most n expired entries removed, lowest slot first
RECURSIVE HarvestExpired(_, _, _, _)
HarvestExpired(s, i, n, t) ==
    IF n = 0 \/ i > Len(s) THEN s
    ELSE IF Expired(s[i], t) THEN HarvestExpired(RemoveSlot(s, i), i, n - 1, t)
    ELSE HarvestExpired(s, i + 1, n, t)

\* tcl_evict_entries(count) of translation_cache_layer.c: expired entries are
\* harvested first, the policy fills the shortfall
tcl_evict_entries(s, count) ==
    LET h == HarvestExpired(s, 1, count, now)
    IN tcl_entry_evict(h, count - (Len(s) - Len(h)))

\* tcl_entry_manager_init(config): a NULL config selects the defaults
tcl_entry_manager_init(cfg) ==
    IF cfg.null
    THEN [null |-> FALSE, policy |-> TCL_EVICT_LRU,
          eviction_batch_size |-> TCL_DEFAULT_EVICTION_BATCH,
          auto_extend_ttl |-> TCL_DEFAULT_AUTO_EXTEND_TTL,
          ttl_extension_ms |-> TCL_DEFAULT_TTL_EXTENSION_MS]
    ELSE cfg

NullConfig == [null |-> TRUE, policy |-> 0, eviction_batch_size |-> 0,
               auto_extend_ttl |-> FALSE, ttl_extension_ms |-> 0]

\* the LRU configurations: the default one, and batches of 0 and 1
LruConfigChoices ==
    {NullConfig} \cup
    [null : {FALSE}, policy : {TCL_EVICT_LRU}, eviction_batch_size : {0, 1},
     auto_extend_ttl : {FALSE}, ttl_extension_ms : {0}]

EmConfigChoices ==
    {NullConfig} \cup
    {[null |-> FALSE, policy |-> TCL_EVICT_LRU, eviction_batch_size |-> 0,
      auto_extend_ttl |-> FALSE, ttl_extension_ms |-> 0]} \cup
    {[null |-> FALSE, policy |-> TCL_EVICT_LRU, eviction_batch_size |-> 1,
      auto_extend_ttl |-> TRUE, ttl_extension_ms |-> TickMs]} \cup
    [null : {FALSE},
     policy : {TCL_EVICT_LRU, TCL_EVICT_LFU, TCL_EVICT_FIFO, TCL_EVICT_RANDOM},
     eviction_batch_size : {1}, auto_extend_ttl : {FALSE}, ttl_extension_ms : {0}]

\* the metadata argument of tcl_set: NULL, or a caller's struct
NullMeta == [null |-> TRUE, usage_count |-> 0, last_used |-> 0]

NoOp == [op |-> "init", text |-> 0, at |-> 0, status |-> TCL_STATUS_OK,
         out |-> ZeroEntry, exp |-> ZeroEntry]

HistPoison == << [text |-> 0, at |-> 0, ttl |-> 0] >>
HistValid == hist = <<>> \/ hist[1].text # 0

NoFresh == [t \in AllTexts |-> ZeroEntry]
\* a call that removed entries ends every pending round trip
FreshAfter(removed) == IF removed THEN NoFresh ELSE fresh

----------------------------------------------------------------------------
(* Multi-level cache: the three tiers *)

Keys == 1 .. NumKeys

\* a tcl_entry_t of the multi-level cache; key 0 is no entry
NoEntry == [key |-> 0, translation |-> 0, timestamp |-> 0, ttl |-> 0]
NoTier == [k \in Keys |-> NoEntry]
Present(l) == {k \in Keys : l[k].key # 0}

\* L1: lookup with lazy expiry
tcl_memory_cache_get(l, key, t) ==
    IF l[key].key = 0
    THEN [status |-> TCL_STATUS_ERROR_NOT_FOUND, l1 |-> l, out |-> NoEntry]
    ELSE IF Expired(l[key], t)
    THEN [status |-> TCL_STATUS_ERROR_NOT_FOUND,
          l1 |-> [l EXCEPT ![key] = NoEntry], out |-> NoEntry]
    ELSE [status |-> TCL_STATUS_OK, l1 |-> l, out |-> l[key]]

\* L1: the keys an insertion may evict: the expired ones first
L1Victims(l, t) ==
    LET dead == {k \in Present(l) : Expired(l[k], t)}
    IN IF dead # {} THEN dead ELSE Present(l)

\* L1: upsert, evicting one entry when a new key meets a full cache; the
\* outcomes over every victim the eviction may pick
tcl_memory_cache_set(l, e, t, ok) ==
    IF ~ok
    THEN {[status |-> TCL_STATUS_ERROR_MEMORY, l1 |-> l, evicted |-> {}]}
    ELSE IF l[e.key].key # 0 \/ Cardinality(Present(l)) < MaxL1
    THEN {[status |-> TCL_STATUS_OK, l1 |-> [l EXCEPT ![e.key] = e], evicted |-> {}]}
    ELSE {[status |-> TCL_STATUS_OK,
           l1 |-> [l EXCEPT ![v] = NoEntry, ![e.key] = e],
           evicted |-> {v}] : v \in L1Victims(l, t)}

tcl_memory_cache_update(l, e) ==
    IF l[e.key].key = 0
    THEN [status |-> TCL_STATUS_ERROR_NOT_FOUND, l1 |-> l]
    ELSE [status |-> TCL_STATUS_OK, l1 |-> [l EXCEPT ![e.key] = e]]

tcl_memory_cache_delete(l, key) ==
    IF l[key].key = 0
    THEN [status |-> TCL_STATUS_ERROR_NOT_FOUND, l1 |-> l]
    ELSE [status |-> TCL_STATUS_OK, l1 |-> [l EXCEPT ![key] = NoEntry]]

\* L2: what can go wrong in one Redis call: no connection from the pool, the
\* command not sent or not answered, a reply that does not parse
RedisFaults == {"none", "conn", "cmd", "parse"}
WriteFaults == {"none", "conn"}
NoRedis == [k \in Keys |-> [e |-> NoEntry, expire_at |-> 0]]

\* the server's native expiry
RedisExpire(r, t) ==
    [k \in Keys |-> IF r[k].e.key # 0 /\ t >= r[k].expire_at
                    THEN [e |-> NoEntry, expire_at |-> 0] ELSE r[k]]

tcl_redis_cache_get(r, key, fault, t) ==
    IF fault \in {"conn", "cmd"}
    THEN [status |-> TCL_STATUS_ERROR_REDIS, out |-> NoEntry]
    ELSE IF r[key].e.key = 0 \/ t >= r[key].expire_at
    THEN [status |-> TCL_STATUS_ERROR_NOT_FOUND, out |-> NoEntry]
    ELSE IF fault = "parse"
    THEN [status |-> TCL_STATUS_ERROR_INVALID_FORMAT, out |-> NoEntry]
    ELSE [status |-> TCL_STATUS_OK, out |-> r[key].e]

\* SETEX key ttl/1000 payload; the reply is not read, so a command that was
\* sent is a success.  The server refuses an expiry of 0 seconds.
tcl_redis_cache_set(r, e, fault, t) ==
    LET seconds == e.ttl \div MsPerSec
    IN IF fault \in {"conn", "cmd"}
       THEN [status |-> TCL_STATUS_ERROR_REDIS, l2 |-> r]
       ELSE IF seconds = 0
       THEN [status |-> TCL_STATUS_OK, l2 |-> r]
       ELSE [status |-> TCL_STATUS_OK,
             l2 |-> [r EXCEPT ![e.key] =
                        [e |-> e, expire_at |-> t + seconds * MsPerSec]]]

tcl_redis_cache_update(r, e, fault, t) == tcl_redis_cache_set(r, e, fault, t)

\* DEL key; the status is that of sending the command
tcl_redis_cache_delete(r, key, fault) ==
    IF fault \in {"conn", "cmd"}
    THEN [status |-> TCL_STATUS_ERROR_REDIS, l2 |-> r]
    ELSE [status |-> TCL_STATUS_OK,
          l2 |-> [r EXCEPT ![key] = [e |-> NoEntry, expire_at |-> 0]]]

\* L3: the durable store; ok is whether its I/O works in this call
tcl_persistent_cache_get(p, key, t, ok) ==
    IF ~ok THEN [status |-> TCL_STATUS_ERROR_STORAGE, out |-> NoEntry]
    ELSE IF p[key].key = 0 \/ Expired(p[key], t)
    THEN [status |-> TCL_STATUS_ERROR_NOT_FOUND, out |-> NoEntry]
    ELSE [status |-> TCL_STATUS_OK, out |-> p[key]]

tcl_persistent_cache_set(p, e, ok) ==
    IF ~ok THEN [status |-> TCL_STATUS_ERROR_STORAGE, l3 |-> p]
    ELSE [status |-> TCL_STATUS_OK, l3 |-> [p EXCEPT ![e.key] = e]]

tcl_persistent_cache_update(p, e, ok) ==
    IF ~ok THEN [status |-> TCL_STATUS_ERROR_STORAGE, l3 |-> p]
    ELSE IF p[e.key].key = 0 THEN [status |-> TCL_STATUS_ERROR_NOT_FOUND, l3 |-> p]
    ELSE [status |-> TCL_STATUS_OK, l3 |-> [p EXCEPT ![e.key] = e]]

tcl_persistent_cache_delete(p, key, ok) ==
    IF ~ok THEN [status |-> TCL_STATUS_ERROR_STORAGE, l3 |-> p]
    ELSE IF p[key].key = 0 THEN [status |-> TCL_STATUS_ERROR_NOT_FOUND, l3 |-> p]
    ELSE [status |-> TCL_STATUS_OK, l3 |-> [p EXCEPT ![key] = NoEntry]]

NoPromo == [k \in Keys |-> [st |-> "none", e |-> NoEntry]]

NoMop == [op |-> "init", key |-> 0, at |-> 0, result |-> TCL_STATUS_OK,
          s1 |-> TCL_STATUS_OK, s2 |-> TCL_STATUS_OK, s3 |-> TCL_STATUS_OK,
          called2 |-> FALSE, called3 |-> FALSE,
          arg |-> NoEntry, out |-> NoEntry,
          l3had |-> FALSE, l1kept |-> TRUE, kept23 |-> TRUE,
          promo |-> [st |-> "none", e |-> NoEntry],
          clean |-> TRUE, again |-> FALSE, would3 |-> FALSE]

\* tcl_get_metrics: the sums over the three tiers' own metrics
tcl_get_metrics(m) ==
    [hits |-> m.l1_hits + m.l2_hits + m.l3_hits,
     misses |-> m.l1_misses + m.l2_misses + m.l3_misses]

\* tcl_init_multi_level_cache
InitMulti ==
    /\ l1 = NoTier
    /\ l2 = NoRedis
    /\ l3 = NoTier
    /\ metrics = [l1_hits |-> 0, l2_hits |-> 0, l3_hits |-> 0,
                  l1_misses |-> 0, l2_misses |-> 0, l3_misses |-> 0,
                  total_misses |-> 0]
    /\ faults = 0
    /\ promo = NoPromo
    /\ mop = NoMop

----------------------------------------------------------------------------
(* Parallel callers of the memory tier: state *)

Threads == 1 .. NumThreads

\* entries[] has max_entries slots; a write beyond them lands in the memory
\* that follows the array, which is kept here as further slots
NumSlots == MaxEntries + NumThreads

\* a slot after memset; hits counts the tcl_get calls that returned this entry
ZeroSlot ==
    [source_text |-> 0, translation |-> 0, timestamp |-> 0, ttl |-> 0,
     usage_count |-> 0, last_used |-> 0, hits |-> 0]

\* a caller outside any call
IdleThread == [pc |-> "idle", text |-> 0, idx |-> 0, tmp |-> 0]

InitConc ==
    /\ slots = [i \in 1 .. NumSlots |-> ZeroSlot]
    /\ ecount = 0
    /\ thread = [t \in Threads |-> IdleThread]

----------------------------------------------------------------------------
(* Durable storage and the Redis schema: state *)

\* storage_state as the static initialiser leaves it
StorageDown ==
    [initialized |-> FALSE, pending_changes |-> 0, total_saves |-> 0, total_loads |-> 0]

NoSop ==
    [op |-> "init", status |-> TCL_STATUS_OK, num |-> 0, tmp |-> FALSE,
     loaded |-> 0, out |-> <<>>, offset |-> 0, count |-> 0,
     pending |-> 0, flushed |-> FALSE, stored |-> 0]

NoDurable == [stage |-> "none", ents |-> <<>>]

\* an empty directory, idle storage and a database of any schema version
InitStorage ==
    /\ dir = {}
    /\ storage_state = StorageDown
    /\ \E v \in 0 .. TCL_REDIS_SCHEMA_VERSION + 1 :
          meta = [version |-> v, schemas |-> v > 0]
    /\ sop = NoSop
    /\ durable = NoDurable

\* the same, with the database at the code's schema version
InitStorageIdle ==
    /\ dir = {}
    /\ storage_state = StorageDown
    /\ meta = [version |-> TCL_REDIS_SCHEMA_VERSION, schemas |-> TRUE]
    /\ sop = NoSop
    /\ durable = NoDurable

\* the parts that a run of the memory tier or the coordinator leaves alone
InitExt == InitConc /\ InitStorageIdle /\ InitKey /\ InitUp /\ InitDetect /\ InitAux

----------------------------------------------------------------------------
(* Memory tier: actions *)

\* tcl_init, then tcl_entry_manager_init with one of cfgs
InitMemOver(cfgs) ==
    /\ entries = <<>>
    /\ stats = [hits |-> 0, misses |-> 0, evictions |-> 0]
    /\ config = [max_entries |-> MaxEntries, default_ttl_ms |-> 2 * TickMs]
    /\ \E cfg \in cfgs : em_config = tcl_entry_manager_init(cfg)
    /\ lastOp = NoOp
    /\ fresh = NoFresh
    /\ hist = <<>>

InitMem == InitMemOver(EmConfigChoices)

\* the clock advances; the Redis server drops the keys whose SETEX time is up
Tick ==
    /\ ticks < MaxTicks
    /\ ticks' = ticks + 1
    /\ now' = now + TickMs
    /\ l2' = RedisExpire(l2, now + TickMs)
    /\ UNCHANGED <<ops, memVars, l1, l3, metrics, faults, promo, mop, extVars>>

\* the array has max_entries slots: a call that finds entry_count beyond
\* them is outside the model
MemStep ==
    /\ ops < MaxOps
    /\ entry_count <= config.max_entries
    /\ ops' = ops + 1
    /\ UNCHANGED <<now, ticks, config, em_config, multiVars, extVars>>

\* a call that its component's init check turns away
NotInitialized(op, text) ==
    /\ MemStep
    /\ lastOp' = [NoOp EXCEPT !.op = op, !.text = text,
                              !.status = TCL_STATUS_ERROR_NOT_INITIALIZED]
    /\ UNCHANGED <<entries, stats, fresh, hist>>

tcl_entry_add(text, translation, ttl, copy_ok) ==
    IF ~initialized.entry_manager_state THEN NotInitialized("add", text) ELSE
    /\ MemStep
    /\ \E s \in (IF tcl_entry_get_free_space < 1
                 THEN tcl_entry_evict(entries, em_config.eviction_batch_size)
                 ELSE {entries}) :
        LET new_entry == [source_text |-> text, translation |-> translation,
                          timestamp |-> now, ttl |-> ttl,
                          usage_count |-> 1, last_used |-> now]
            removed == Len(entries) - Len(s)
        IN /\ stats' = [stats EXCEPT !.evictions = @ + removed]
           /\ fresh' = FreshAfter(removed > 0)
           /\ IF copy_ok
              THEN /\ entries' = Append(s, new_entry)
                   /\ lastOp' = [NoOp EXCEPT !.op = "add", !.text = text]
                   /\ hist' = IF HistValid /\ Len(hist) <= config.max_entries
                              THEN Append(hist, [text |-> text, at |-> now, ttl |-> ttl])
                              ELSE HistPoison
              ELSE /\ entries' = s
                   /\ lastOp' = [NoOp EXCEPT !.op = "add", !.text = text,
                                             !.status = TCL_STATUS_ERROR_MEMORY]
                   /\ hist' = HistPoison

tcl_set(text, translation, metadata, ttl, alloc_ok) ==
    IF ~initialized.tcl_state THEN NotInitialized("set", text) ELSE
    /\ MemStep
    /\ hist' = HistPoison
    /\ \E s \in (IF entry_count >= config.max_entries
                 THEN tcl_evict_entries(entries, 1)
                 ELSE {entries}) :
        LET new_entry ==
                [source_text |-> text, translation |-> translation,
                 timestamp |-> now,
                 ttl |-> IF ttl # 0 THEN ttl ELSE config.default_ttl_ms,
                 usage_count |-> IF metadata.null THEN 1 ELSE metadata.usage_count,
                 last_used |-> IF metadata.null THEN now ELSE metadata.last_used]
            removed == Len(entries) - Len(s)
        IN /\ stats' = [stats EXCEPT !.evictions = @ + removed]
           /\ IF alloc_ok
              THEN /\ entries' = Append(s, new_entry)
                   /\ fresh' = [FreshAfter(removed > 0) EXCEPT ![text] = new_entry]
                   /\ lastOp' = [NoOp EXCEPT !.op = "set", !.text = text]
              ELSE /\ entries' = s
                   /\ fresh' = FreshAfter(removed > 0)
                   /\ lastOp' = [NoOp EXCEPT !.op = "set", !.text = text,
                                             !.status = TCL_STATUS_ERROR_MEMORY]

\* tcl_get_stats: a copy of the counters with the current entry count
tcl_get_stats(s, n) ==
    [hits |-> s.hits, misses |-> s.misses, evictions |-> s.evictions,
     current_entries |-> n]

tcl_get(text, copy_ok) ==
    IF ~initialized.tcl_state THEN NotInitialized("get", text) ELSE
    /\ MemStep
    /\ hist' = IF HistValid /\ Len(hist) = config.max_entries + 1 THEN hist ELSE HistPoison
    /\ fresh' = [fresh EXCEPT ![text] = ZeroEntry]
    /\ LET idx == tcl_find_entry(entries, tcl_generate_key(text))
           got == [NoOp EXCEPT !.op = "get", !.text = text, !.at = now,
                                !.exp = fresh[text]]
       IN IF idx # 0
          THEN IF Expired(entries[idx], now)
               THEN \* tcl_free_entry(cached_entry): the slot is zeroed in place
                    /\ entries' = [entries EXCEPT ![idx] = ZeroEntry]
                    /\ stats' = [stats EXCEPT !.misses = @ + 1]
                    /\ lastOp' = [got EXCEPT !.status = TCL_STATUS_ERROR_NOT_FOUND]
               ELSE IF copy_ok
                    THEN /\ entries' = [entries EXCEPT
                                          ![idx].usage_count = @ + 1,
                                          ![idx].last_used = now]
                         /\ stats' = [stats EXCEPT !.hits = @ + 1]
                         /\ lastOp' = [got EXCEPT !.out = entries[idx]]
                    ELSE /\ UNCHANGED <<entries, stats>>
                         /\ lastOp' = [got EXCEPT !.status = TCL_STATUS_ERROR_MEMORY]
          ELSE /\ UNCHANGED entries
               /\ stats' = [stats EXCEPT !.misses = @ + 1]
               /\ lastOp' = [got EXCEPT !.status = TCL_STATUS_ERROR_NOT_FOUND]

tcl_entry_evict_call(count) ==
    IF ~initialized.entry_manager_state THEN NotInitialized("evict", 0) ELSE
    /\ MemStep
    /\ hist' = HistPoison
    /\ \E s \in tcl_entry_evict(entries, count) :
        /\ entries' = s
        /\ stats' = [stats EXCEPT !.evictions = @ + (Len(entries) - Len(s))]
        /\ fresh' = FreshAfter(Len(s) < Len(entries))
    /\ lastOp' = [NoOp EXCEPT !.op = "evict"]

tcl_entry_clear_expired ==
    /\ MemStep
    /\ hist' = HistPoison
    /\ LET s == ClearExpiredFrom(entries, 1, now)
       IN /\ entries' = s
          /\ stats' = [stats EXCEPT !.evictions = @ + (Len(entries) - Len(s))]
          /\ fresh' = FreshAfter(Len(s) < Len(entries))
    /\ lastOp' = [NoOp EXCEPT !.op = "clear_expired"]

EntryAdd == \E text \in Texts, ttl \in TtlChoices, copy_ok \in BOOLEAN :
                tcl_entry_add(text, 1, ttl, copy_ok)
Set == \E text \in Texts, tr \in Translations, ttl \in {0, TickMs}, alloc_ok \in BOOLEAN :
                tcl_set(text, tr, NullMeta, ttl, alloc_ok)
Get == \E text \in Texts, copy_ok \in BOOLEAN : tcl_get(text, copy_ok)
Evict == \E count \in 0 .. MaxEntries : tcl_entry_evict_call(count)
ClearExpired == tcl_entry_clear_expired

InitClock == now = 0 /\ ticks = 0 /\ ops = 0

InitM == InitClock /\ InitMem /\ InitMulti /\ InitExt
NextEM == Tick \/ EntryAdd \/ Get \/ Evict \/ ClearExpired
SpecEM == InitM /\ [][NextEM]_vars

\* insertions and lookups only, under LRU
InitLru == InitClock /\ InitMemOver(LruConfigChoices) /\ InitMulti /\ InitExt
NextLru == Tick \/ EntryAdd \/ Get
SpecLru == InitLru /\ [][NextLru]_vars

NextSet == Tick \/ Set \/ Get
SpecSet == InitM /\ [][NextSet]_vars

\* insertions with caller-supplied metadata, and lookups
MetaChoices ==
    {NullMeta} \cup [null : {FALSE}, usage_count : 0 .. 1, last_used : {0, TickMs}]
SetMeta == \E text \in Texts, metadata \in MetaChoices, alloc_ok \in BOOLEAN :
                tcl_set(text, 1, metadata, 0, alloc_ok)
NextMeta == Tick \/ SetMeta \/ Get
SpecMeta == InitLru /\ [][NextMeta]_vars

\* insertions and lookups of requests, two of which have one key
CollidingTexts == {1, Altarage, Zinke}
SetColliding == \E text \in CollidingTexts, tr \in Translations, alloc_ok \in BOOLEAN :
                    tcl_set(text, tr, NullMeta, 0, alloc_ok)
GetColliding == \E text \in CollidingTexts, copy_ok \in BOOLEAN : tcl_get(text, copy_ok)
NextCollide == Tick \/ SetColliding \/ GetColliding
SpecCollide == InitLru /\ [][NextCollide]_vars

----------------------------------------------------------------------------
(* Lifecycle of the cache and the entry manager *)

\* tcl_state and entry_manager_state as the program starts
InitDown ==
    /\ entries = <<>>
    /\ stats = [hits |-> 0, misses |-> 0, evictions |-> 0]
    /\ config = [max_entries |-> 0, default_ttl_ms |-> 0]
    /\ em_config = [null |-> FALSE, policy |-> 0, eviction_batch_size |-> 0,
                    auto_extend_ttl |-> FALSE, ttl_extension_ms |-> 0]
    /\ lastOp = NoOp
    /\ fresh = NoFresh
    /\ hist = <<>>
    /\ initialized = [tcl_state |-> FALSE, entry_manager_state |-> FALSE]

LifeStep ==
    /\ ops < MaxOps
    /\ ops' = ops + 1
    /\ UNCHANGED <<now, ticks, multiVars, concVars, storVars, keyVars, detVars, auxVars>>

\* tcl_init(config) with both fields of config set, so that no default is
\* substituted
tcl_init(max_entries, default_ttl_ms, alloc_ok) ==
    /\ LifeStep
    /\ UNCHANGED em_config
    /\ IF initialized.tcl_state
       THEN /\ lastOp' = [NoOp EXCEPT
                             !.op = "tcl_init",
                             !.status = TCL_STATUS_ERROR_ALREADY_INITIALIZED]
            /\ UNCHANGED <<entries, stats, config, fresh, hist, initialized>>
       ELSE \* tcl_state_init, the configuration, tcl_init_memory_cache
            /\ entries' = <<>>
            /\ stats' = [hits |-> 0, misses |-> 0, evictions |-> 0]
            /\ config' = [max_entries |-> max_entries,
                          default_ttl_ms |-> default_ttl_ms]
            /\ fresh' = NoFresh
            /\ hist' = <<>>
            /\ initialized' = [initialized EXCEPT !.tcl_state = alloc_ok]
            /\ lastOp' = [NoOp EXCEPT
                             !.op = "tcl_init",
                             !.status = IF alloc_ok THEN TCL_STATUS_OK
                                        ELSE TCL_STATUS_ERROR_MEMORY]

tcl_entry_manager_init_call(cfg) ==
    /\ LifeStep
    /\ UNCHANGED <<entries, stats, config, fresh, hist>>
    /\ IF initialized.entry_manager_state
       THEN /\ lastOp' = [NoOp EXCEPT
                             !.op = "em_init",
                             !.status = TCL_STATUS_ERROR_ALREADY_INITIALIZED]
            /\ UNCHANGED <<em_config, initialized>>
       ELSE /\ em_config' = tcl_entry_manager_init(cfg)
            /\ initialized' = [initialized EXCEPT !.entry_manager_state = TRUE]
            /\ lastOp' = [NoOp EXCEPT !.op = "em_init"]

TclInit == \E alloc_ok \in BOOLEAN : tcl_init(MaxEntries, 2 * TickMs, alloc_ok)
EmInit == \E cfg \in LruConfigChoices : tcl_entry_manager_init_call(cfg)
LifeSet == \E text \in Texts : tcl_set(text, 1, NullMeta, TickMs, TRUE)
LifeGet == \E text \in Texts : tcl_get(text, TRUE)
\* tcl_entry_add writes through tcl_state.entries, which is NULL until
\* tcl_init: such a call is outside the model
LifeAdd ==
    /\ initialized.tcl_state \/ ~initialized.entry_manager_state
    /\ \E text \in Texts : tcl_entry_add(text, 1, TickMs, TRUE)

----------------------------------------------------------------------------
(* Multi-level cache: the coordinator *)

Failing(ok) == IF ok THEN 0 ELSE 1

\* a coordinator call during which the tiers fail as ok1, fault2, ok3 say
MultiStep(ok1, fault2, ok3) ==
    LET n == Failing(ok1) + Failing(fault2 = "none") + Failing(ok3)
    IN /\ ops < MaxOps
       /\ faults + n <= MaxFaults
       /\ ops' = ops + 1
       /\ faults' = faults + n
       /\ UNCHANGED <<now, ticks, memVars, extVars>>

\* the ttl of the entries the callers build
MultiTtl == MsPerSec

\* a lookup that an L2 failure ends
tcl_get_entry_tier_stop(s1, s2, s3) ==
    IF s1 = TCL_STATUS_OK THEN 1
    ELSE IF s2 = TCL_STATUS_OK THEN 2
    ELSE IF s2 # TCL_STATUS_ERROR_NOT_FOUND THEN 0
    ELSE IF s3 = TCL_STATUS_OK THEN 3
    ELSE 0

\* which tier answers a get: 1, 2, 3, or 0 for none
tcl_get_entry_tier(s1, s2, s3) ==
    IF s1 = TCL_STATUS_OK THEN 1
    ELSE IF s2 = TCL_STATUS_OK THEN 2
    ELSE IF s3 = TCL_STATUS_OK THEN 3
    ELSE 0

\* a promotion that stores nothing
PromoteNothing(l, e, t, ok) ==
    {[status |-> TCL_STATUS_OK, l1 |-> l, evicted |-> {}]}

\* the promotion of a lower tier's hit into the memory cache
PromoteL1(l, e, t, ok) == tcl_memory_cache_set(l, e, t, ok)

\* promo after a call on key that evicted the keys in gone from L1
PromoAfter(key, gone, p) ==
    [k \in Keys |-> IF k = key THEN p
                    ELSE IF k \in gone THEN NoPromo[k] ELSE promo[k]]

tcl_get_entry(key, fault2, ok3, ok1) ==
    /\ MultiStep(ok1, fault2, ok3)
    /\ LET g1 == tcl_memory_cache_get(l1, key, now)
           g2 == tcl_redis_cache_get(l2, key, fault2, now)
           g3 == tcl_persistent_cache_get(l3, key, now, ok3)
           tier == tcl_get_entry_tier(g1.status, g2.status, g3.status)
           found == CASE tier = 1 -> g1.out
                      [] tier = 2 -> g2.out
                      [] tier = 3 -> g3.out
                      [] OTHER -> NoEntry
           p2 == IF tier = 3 THEN tcl_redis_cache_set(l2, found, fault2, now)
                 ELSE [status |-> TCL_STATUS_OK, l2 |-> l2]
       IN \E p \in (IF tier \in {2, 3}
                    THEN PromoteL1(g1.l1, found, now, ok1)
                    ELSE {[status |-> TCL_STATUS_OK, l1 |-> g1.l1, evicted |-> {}]}) :
            /\ l1' = p.l1
            /\ l2' = p2.l2
            /\ l3' = l3
            /\ metrics' = CASE tier = 1 -> [metrics EXCEPT !.l1_hits = @ + 1]
                            [] tier = 2 -> [metrics EXCEPT !.l2_hits = @ + 1]
                            [] tier = 3 -> [metrics EXCEPT !.l3_hits = @ + 1]
                            [] OTHER -> [metrics EXCEPT !.total_misses = @ + 1]
            /\ promo' = PromoAfter(key, p.evicted,
                            IF tier = 2
                            THEN [st |-> IF p.status = TCL_STATUS_OK
                                         THEN "stored" ELSE "dropped",
                                  e |-> found]
                            ELSE NoPromo[key])
            /\ mop' = [NoMop EXCEPT
                         !.op = "get", !.key = key, !.at = now,
                         !.result = IF tier = 0 THEN TCL_STATUS_ERROR_NOT_FOUND
                                    ELSE TCL_STATUS_OK,
                         !.s1 = g1.status,
                         !.called2 = tier # 1,
                         !.s2 = IF tier # 1 THEN g2.status ELSE TCL_STATUS_OK,
                         !.called3 = tier \notin {1, 2},
                         !.s3 = IF tier \notin {1, 2} THEN g3.status ELSE TCL_STATUS_OK,
                         !.out = found,
                         !.l3had = (l3[key].key # 0 /\ ~Expired(l3[key], now)),
                         !.l1kept = (p.l1 = g1.l1),
                         !.promo = promo[key]]

\* a set that reports the first tier that failed
tcl_set_entry_strict(s1, s2, s3) ==
    IF s1 # TCL_STATUS_OK THEN s1
    ELSE IF s2 # TCL_STATUS_OK THEN s2
    ELSE s3

\* what tcl_set_entry returns, given the three tiers' statuses
tcl_set_entry_status(s1, s2, s3) ==
    IF s1 # TCL_STATUS_OK THEN s1 ELSE TCL_STATUS_OK

tcl_set_entry(key, translation, ok1, fault2, ok3) ==
    /\ MultiStep(ok1, fault2, ok3)
    /\ LET e == [key |-> key, translation |-> translation,
                 timestamp |-> now, ttl |-> MultiTtl]
       IN \E p \in tcl_memory_cache_set(l1, e, now, ok1) :
            LET go == p.status = TCL_STATUS_OK
                w2 == IF go THEN tcl_redis_cache_set(l2, e, fault2, now)
                      ELSE [status |-> TCL_STATUS_OK, l2 |-> l2]
                w3 == IF go THEN tcl_persistent_cache_set(l3, e, ok3)
                      ELSE [status |-> TCL_STATUS_OK, l3 |-> l3]
            IN /\ l1' = p.l1
               /\ l2' = w2.l2
               /\ l3' = w3.l3
               /\ promo' = PromoAfter(key, p.evicted, NoPromo[key])
               /\ mop' = [NoMop EXCEPT
                            !.op = "set", !.key = key, !.at = now, !.arg = e,
                            !.result = tcl_set_entry_status(p.status, w2.status, w3.status),
                            !.s1 = p.status,
                            !.called2 = go, !.s2 = w2.status,
                            !.called3 = go, !.s3 = w3.status,
                            !.kept23 = (w2.l2 = l2 /\ w3.l3 = l3)]
    /\ UNCHANGED metrics

\* a status tcl_update_entry and tcl_delete_entry let pass at L1 and L2
Tolerated(status) ==
    status = TCL_STATUS_OK \/ status = TCL_STATUS_ERROR_NOT_FOUND

tcl_update_entry(key, translation, fault2, ok3) ==
    /\ MultiStep(TRUE, fault2, ok3)
    /\ LET e == [key |-> key, translation |-> translation,
                 timestamp |-> now, ttl |-> MultiTtl]
           u1 == tcl_memory_cache_update(l1, e)
           go2 == Tolerated(u1.status)
           u2 == IF go2 THEN tcl_redis_cache_update(l2, e, fault2, now)
                 ELSE [status |-> TCL_STATUS_OK, l2 |-> l2]
           go3 == go2 /\ Tolerated(u2.status)
           u3 == IF go3 THEN tcl_persistent_cache_update(l3, e, ok3)
                 ELSE [status |-> TCL_STATUS_OK, l3 |-> l3]
       IN /\ l1' = u1.l1
          /\ l2' = u2.l2
          /\ l3' = u3.l3
          /\ mop' = [NoMop EXCEPT
                       !.op = "update", !.key = key, !.at = now, !.arg = e,
                       !.result = IF ~go2 THEN u1.status
                                  ELSE IF ~go3 THEN u2.status
                                  ELSE u3.status,
                       !.s1 = u1.status,
                       !.called2 = go2, !.s2 = u2.status,
                       !.called3 = go3, !.s3 = u3.status,
                       !.kept23 = (u2.l2 = l2 /\ u3.l3 = l3)]
    /\ promo' = PromoAfter(key, {}, NoPromo[key])
    /\ UNCHANGED metrics

tcl_delete_entry(key, fault2, ok3) ==
    /\ MultiStep(TRUE, fault2, ok3)
    /\ LET d1 == tcl_memory_cache_delete(l1, key)
           go2 == Tolerated(d1.status)
           d2 == IF go2 THEN tcl_redis_cache_delete(l2, key, fault2)
                 ELSE [status |-> TCL_STATUS_OK, l2 |-> l2]
           go3 == go2 /\ Tolerated(d2.status)
           d3 == IF go3 THEN tcl_persistent_cache_delete(l3, key, ok3)
                 ELSE [status |-> TCL_STATUS_OK, l3 |-> l3]
       IN /\ l1' = d1.l1
          /\ l2' = d2.l2
          /\ l3' = d3.l3
          /\ mop' = [NoMop EXCEPT
                       !.op = "delete", !.key = key, !.at = now,
                       !.result = IF ~go2 THEN d1.status
                                  ELSE IF ~go3 THEN d2.status
                                  ELSE d3.status,
                       !.s1 = d1.status,
                       !.called2 = go2, !.s2 = d2.status,
                       !.called3 = go3, !.s3 = d3.status,
                       !.l1kept = (d1.l1 = l1),
                       !.kept23 = (d2.l2 = l2 /\ d3.l3 = l3),
                       !.clean = (Tolerated(d2.status)
                                  /\ d3.status # TCL_STATUS_ERROR_STORAGE),
                       !.would3 = (tcl_persistent_cache_delete(l3, key, ok3).status
                                      = TCL_STATUS_OK),
                       !.again = (/\ mop.op = "delete" /\ mop.key = key
                                  /\ mop.at = now
                                  /\ mop.result = TCL_STATUS_OK)]
    /\ promo' = PromoAfter(key, {}, NoPromo[key])
    /\ UNCHANGED metrics

GetEntry == \E key \in Keys, fault2 \in RedisFaults, ok3 \in BOOLEAN, ok1 \in BOOLEAN :
                tcl_get_entry(key, fault2, ok3, ok1)
\* producers set translation 1 and update it to translation 2
SetEntry == \E key \in Keys, ok1 \in BOOLEAN, fault2 \in WriteFaults, ok3 \in BOOLEAN :
                tcl_set_entry(key, 1, ok1, fault2, ok3)
UpdateEntry == \E key \in Keys, fault2 \in WriteFaults, ok3 \in BOOLEAN :
                tcl_update_entry(key, 2, fault2, ok3)
DeleteEntry == \E key \in Keys, fault2 \in WriteFaults, ok3 \in BOOLEAN :
                tcl_delete_entry(key, fault2, ok3)

\* the memory tier of tcl_state idle under a NULL entry-manager configuration
InitMemIdle == InitMemOver({NullConfig})

InitMultiLevel == InitClock /\ InitMemIdle /\ InitMulti /\ InitExt

\* reads and promotions as time passes
NextRead == Tick \/ GetEntry \/ SetEntry
SpecRead == InitMultiLevel /\ [][NextRead]_vars

\* writes at one instant
NextWrite == GetEntry \/ SetEntry \/ UpdateEntry \/ DeleteEntry
SpecWrite == InitMultiLevel /\ [][NextWrite]_vars

----------------------------------------------------------------------------
(* Parallel callers of the memory tier.  tcl_get and tcl_set take no lock; *)
(* each action is one caller's next access to tcl_state.                   *)

\* the slots tcl_find_entry and the eviction scans look at
Visible == SubSeq(slots, 1, ecount)

\* the victim of tcl_evict_entries(1): the lowest expired slot, else the LRU
EvictVictim(s, t) ==
    LET old == {i \in 1 .. Len(s) : Expired(s[i], t)}
    IN IF old # {} THEN CHOOSE i \in old : \A j \in old : i <= j
       ELSE LruIdx(s)

\* the memory after slot i of n is freed and the last slot moved into it
EvictAt(mem, n, i) ==
    [mem EXCEPT ![i] = IF i = n THEN ZeroSlot ELSE mem[n],
                ![n] = IF i = n THEN ZeroSlot ELSE @]

ConcStep(t) ==
    /\ ecount <= NumSlots
    /\ UNCHANGED <<now, ticks, memVars, multiVars, storVars, keyVars, lifeVars,
                   detVars, auxVars>>

\* a caller enters a call
ConcCall(t) ==
    /\ ConcStep(t)
    /\ thread[t].pc = "idle"
    /\ ops < MaxOps
    /\ ops' = ops + 1

\* a caller goes on inside its call
ConcAt(t, pc) ==
    /\ ConcStep(t)
    /\ thread[t].pc = pc
    /\ UNCHANGED ops

\* tcl_get: tcl_find_entry(key, &cached_entry)
get_find(t, text) ==
    /\ ConcCall(t)
    /\ LET idx == tcl_find_entry(Visible, tcl_generate_key(text))
       IN thread' = [thread EXCEPT ![t] =
                        IF idx = 0 THEN IdleThread
                        ELSE [pc |-> "g_check", text |-> text, idx |-> idx, tmp |-> 0]]
    /\ UNCHANGED <<slots, ecount>>

\* tcl_get: the expiry test, then tcl_free_entry or tcl_copy_entry
get_check(t) ==
    /\ ConcAt(t, "g_check")
    /\ IF Expired(slots[thread[t].idx], now)
       THEN /\ slots' = [slots EXCEPT ![thread[t].idx] = ZeroSlot]
            /\ thread' = [thread EXCEPT ![t] = IdleThread]
       ELSE /\ thread' = [thread EXCEPT ![t].pc = "g_load"]
            /\ UNCHANGED slots
    /\ UNCHANGED ecount

\* tcl_get: usage_count++ reads the counter ...
get_load(t) ==
    /\ ConcAt(t, "g_load")
    /\ thread' = [thread EXCEPT ![t].pc = "g_store",
                                ![t].tmp = slots[thread[t].idx].usage_count]
    /\ UNCHANGED <<slots, ecount>>

\* ... and writes it back; last_used = tcl_get_time_ms(); return OK
get_store(t) ==
    /\ ConcAt(t, "g_store")
    /\ slots' = [slots EXCEPT ![thread[t].idx].usage_count = thread[t].tmp + 1,
                              ![thread[t].idx].last_used = now,
                              ![thread[t].idx].hits = @ + 1]
    /\ thread' = [thread EXCEPT ![t] = IdleThread]
    /\ UNCHANGED ecount

\* tcl_set: the cache-full test and tcl_evict_entries(1)
set_check(t, text) ==
    /\ ConcCall(t)
    /\ IF ecount >= config.max_entries /\ ecount > 0
       THEN /\ slots' = EvictAt(slots, ecount, EvictVictim(Visible, now))
            /\ ecount' = ecount - 1
       ELSE UNCHANGED <<slots, ecount>>
    /\ thread' = [thread EXCEPT ![t] =
                     [pc |-> "s_slot", text |-> text, idx |-> 0, tmp |-> 0]]

\* tcl_set: new_entry = &entries[entry_count]; memset(new_entry, 0, ...)
set_slot(t) ==
    /\ ConcAt(t, "s_slot")
    /\ ecount < NumSlots
    /\ slots' = [slots EXCEPT ![ecount + 1] = ZeroSlot]
    /\ thread' = [thread EXCEPT ![t].pc = "s_strings", ![t].idx = ecount + 1]
    /\ UNCHANGED ecount

\* tcl_set: the four strdup calls; on a failed one tcl_free_entry and return
set_strings(t, alloc_ok) ==
    /\ ConcAt(t, "s_strings")
    /\ IF alloc_ok
       THEN /\ slots' = [slots EXCEPT ![thread[t].idx].source_text = thread[t].text,
                                      ![thread[t].idx].translation = 1]
            /\ thread' = [thread EXCEPT ![t].pc = "s_meta"]
       ELSE /\ slots' = [slots EXCEPT ![thread[t].idx] = ZeroSlot]
            /\ thread' = [thread EXCEPT ![t] = IdleThread]
    /\ UNCHANGED ecount

\* tcl_set: metadata (NULL argument), timestamp and ttl
set_meta(t, ttl) ==
    /\ ConcAt(t, "s_meta")
    /\ slots' = [slots EXCEPT
                    ![thread[t].idx].usage_count = 1,
                    ![thread[t].idx].last_used = now,
                    ![thread[t].idx].timestamp = now,
                    ![thread[t].idx].ttl = IF ttl # 0 THEN ttl
                                           ELSE config.default_ttl_ms]
    /\ thread' = [thread EXCEPT ![t].pc = "s_load"]
    /\ UNCHANGED ecount

\* tcl_set: entry_count++ reads the counter ...
set_load(t) ==
    /\ ConcAt(t, "s_load")
    /\ thread' = [thread EXCEPT ![t].pc = "s_store", ![t].tmp = ecount]
    /\ UNCHANGED <<slots, ecount>>

\* ... and writes it back; return OK
set_store(t) ==
    /\ ConcAt(t, "s_store")
    /\ ecount' = thread[t].tmp + 1
    /\ thread' = [thread EXCEPT ![t] = IdleThread]
    /\ UNCHANGED slots

ConcGet == \E t \in Threads :
    \/ \E text \in Texts : get_find(t, text)
    \/ get_check(t)
    \/ get_load(t)
    \/ get_store(t)

ConcSet == \E t \in Threads :
    \/ \E text \in Texts : set_check(t, text)
    \/ set_slot(t)
    \/ \E alloc_ok \in BOOLEAN : set_strings(t, alloc_ok)
    \/ \E ttl \in TtlChoices : set_meta(t, ttl)
    \/ set_load(t)
    \/ set_store(t)

InitConcurrent == InitClock /\ InitMemIdle /\ InitMulti /\ InitExt
NextConc == Tick \/ ConcGet \/ ConcSet
SpecConc == InitConcurrent /\ [][NextConc]_vars

----------------------------------------------------------------------------
(* Durable storage (tcl_storage.c) and the Redis schema.  A file of the    *)
(* storage directory is its name, batch_<num>.bin or batch_<num>.bin.tmp,  *)
(* and what it holds: hdr header words (magic, version, count), then the   *)
(* complete entries ents, then, if part, the first bytes of one more.      *)

Min(a, b) == IF a < b THEN a ELSE b

\* entry i of the batch saved at time t
BatchEntry(i, t) ==
    [key |-> i, value |-> t, timestamp |-> t, ttl |-> MsPerSec, flags |-> 0]

\* a caller's slot that short reads have filled
TornEntry == [key |-> 0, value |-> 0, timestamp |-> 0, ttl |-> 0, flags |-> 0]

BatchOf(n, t) == [i \in 1 .. n |-> BatchEntry(i, t)]

\* fopen(path, "wb") replaces the file of that name
PutFile(d, f) == {g \in d : ~(g.num = f.num /\ g.tmp = f.tmp)} \cup {f}

\* how far the writes of a save of n entries get: the open fails, a write
\* of the header or of an entry fails, or all succeed
SaveProgress(n) ==
    {[open |-> FALSE, hdr |-> 0, n |-> 0, part |-> FALSE]}
    \cup {[open |-> TRUE, hdr |-> h, n |-> 0, part |-> FALSE] : h \in 0 .. 2}
    \cup {[open |-> TRUE, hdr |-> 3, n |-> k, part |-> q] :
              k \in 0 .. (n - 1), q \in BOOLEAN}
    \cup {[open |-> TRUE, hdr |-> 3, n |-> n, part |-> FALSE]}

\* the file holds all it declares
Intact(f) ==
    /\ f.hdr = 3 /\ f.magic /\ f.version = BATCH_VERSION
    /\ Len(f.ents) = f.total /\ ~f.part

\* the names the scan of tcl_storage_load_batch accepts: "batch_" followed
\* by a number above newest_time, which starts at 0
Scanned(d) == {f \in d : f.num > 0}

\* the files the scan can end on: the highest number; the order of equal
\* numbers is that of the directory listing
Newest(d) == {f \in Scanned(d) : \A g \in Scanned(d) : g.num <= f.num}

StorStep ==
    /\ ops < MaxOps
    /\ ops' = ops + 1
    /\ UNCHANGED <<now, ticks, memVars, multiVars, concVars, keyVars, lifeVars,
                   detVars, auxVars>>

tcl_storage_init(dir_ok, meta_ok) ==
    /\ StorStep
    /\ UNCHANGED <<dir, meta>>
    /\ durable' = IF ~storage_state.initialized /\ dir_ok /\ durable.stage = "down"
                  THEN [durable EXCEPT !.stage = "ready"] ELSE durable
    /\ IF storage_state.initialized
       THEN /\ sop' = [NoSop EXCEPT !.op = "storage_init",
                                    !.status = TCL_STATUS_ERROR_ALREADY_INITIALIZED]
            /\ UNCHANGED storage_state
       ELSE IF ~dir_ok
       THEN /\ sop' = [NoSop EXCEPT !.op = "storage_init",
                                    !.status = TCL_STATUS_ERROR_STORAGE]
            /\ UNCHANGED storage_state
       ELSE /\ sop' = [NoSop EXCEPT !.op = "storage_init"]
            /\ storage_state' =
                  [storage_state EXCEPT
                     !.initialized = TRUE,
                     !.total_saves = IF meta_ok THEN @ ELSE 0,
                     !.total_loads = IF meta_ok THEN @ ELSE 0]

\* count entries written to batch_<now>.bin as far as w says
tcl_storage_save_batch(count, w) ==
    /\ StorStep
    /\ UNCHANGED meta
    /\ IF ~storage_state.initialized
       THEN /\ sop' = [NoSop EXCEPT !.op = "save",
                                    !.status = TCL_STATUS_ERROR_NOT_INITIALIZED]
            /\ UNCHANGED <<dir, storage_state, durable>>
       ELSE IF count = 0
       THEN /\ sop' = [NoSop EXCEPT !.op = "save",
                                    !.status = TCL_STATUS_ERROR_INVALID_PARAM]
            /\ UNCHANGED <<dir, storage_state, durable>>
       ELSE LET done == w.open /\ w.hdr = 3 /\ w.n = count
                f == [num |-> now, tmp |-> FALSE, hdr |-> w.hdr,
                      magic |-> TRUE, version |-> BATCH_VERSION,
                      total |-> IF w.hdr = 3 THEN count ELSE 0,
                      ents |-> BatchOf(w.n, now), part |-> w.part]
            IN /\ dir' = IF w.open THEN PutFile(dir, f) ELSE dir
               /\ durable' = IF done THEN [stage |-> "saved", ents |-> f.ents]
                             ELSE durable
               /\ storage_state' =
                     IF done
                     THEN [storage_state EXCEPT !.total_saves = @ + 1,
                                                !.pending_changes = @ + count]
                     ELSE storage_state
               /\ sop' = [NoSop EXCEPT
                            !.op = "save", !.num = now, !.count = count,
                            !.status = IF done THEN TCL_STATUS_OK
                                       ELSE TCL_STATUS_ERROR_STORAGE]

\* what the read loop hands back from file f: complete entries as they are;
\* from the first entry that a short read builds on, either the malloc of a
\* junk length fails and the loop ends, or every further slot counts
LoadedFrom(f, offset, want, alloc_ok) ==
    [i \in 1 .. (IF alloc_ok THEN want
                 ELSE Min(want, IF Len(f.ents) > offset
                                THEN Len(f.ents) - offset ELSE 0)) |->
        IF offset + i <= Len(f.ents) THEN f.ents[offset + i] ELSE TornEntry]

\* junk is what the header variables hold where the file ends before them
tcl_storage_load_batch(offset, count, junk, alloc_ok) ==
    /\ StorStep
    /\ UNCHANGED <<dir, meta, durable>>
    /\ IF ~storage_state.initialized
       THEN /\ sop' = [NoSop EXCEPT !.op = "load",
                                    !.status = TCL_STATUS_ERROR_NOT_INITIALIZED]
            /\ UNCHANGED storage_state
       ELSE IF Newest(dir) = {}
       THEN /\ sop' = [NoSop EXCEPT !.op = "load", !.offset = offset,
                                    !.count = count,
                                    !.status = TCL_STATUS_ERROR_NOT_FOUND]
            /\ UNCHANGED storage_state
       ELSE \E f \in Newest(dir) :
            LET magic == IF f.hdr >= 1 THEN f.magic ELSE junk.magic
                version == IF f.hdr >= 2 THEN f.version ELSE junk.version
                total == IF f.hdr >= 3 THEN f.total ELSE junk.total
                want == IF total > offset THEN Min(count, total - offset) ELSE 0
                got == LoadedFrom(f, offset, want, alloc_ok)
                seen == [NoSop EXCEPT !.op = "load", !.num = f.num,
                                      !.tmp = f.tmp, !.offset = offset,
                                      !.count = count]
            IN IF ~magic \/ version # BATCH_VERSION
               THEN /\ sop' = [seen EXCEPT !.status = TCL_STATUS_ERROR_INVALID_FORMAT]
                    /\ UNCHANGED storage_state
               ELSE /\ sop' = [seen EXCEPT
                                 !.loaded = Len(got), !.out = got,
                                 !.status = IF Len(got) > 0 THEN TCL_STATUS_OK
                                            ELSE TCL_STATUS_ERROR_EMPTY]
                    /\ storage_state' = [storage_state EXCEPT !.total_loads = @ + 1]

\* what tcl_redis_schema_backup and write_metadata can come to
FlushOutcomes ==
    {TCL_STATUS_OK, TCL_STATUS_ERROR_INVALID_PARAM, TCL_STATUS_ERROR_REDIS,
     TCL_STATUS_ERROR_INTERNAL, TCL_STATUS_ERROR_STORAGE}

\* storage_state after tcl_storage_save_all returned status
SavedAll(s, status) ==
    IF status = TCL_STATUS_OK
    THEN [s EXCEPT !.total_saves = @ + 1, !.pending_changes = 0]
    ELSE s

tcl_storage_save_all(status) ==
    /\ StorStep
    /\ UNCHANGED <<dir, meta, durable>>
    /\ IF ~storage_state.initialized
       THEN /\ sop' = [NoSop EXCEPT !.op = "save_all",
                                    !.status = TCL_STATUS_ERROR_NOT_INITIALIZED]
            /\ UNCHANGED storage_state
       ELSE /\ storage_state' = SavedAll(storage_state, status)
            /\ sop' = [NoSop EXCEPT !.op = "save_all", !.status = status,
                                    !.pending = storage_state.pending_changes,
                                    !.flushed = TRUE]

\* metadata.bin, entries.bin and index.bin are deleted; the batch files stay
tcl_storage_clear_all ==
    /\ StorStep
    /\ UNCHANGED <<dir, meta, durable>>
    /\ IF ~storage_state.initialized
       THEN /\ sop' = [NoSop EXCEPT !.op = "clear_all",
                                    !.status = TCL_STATUS_ERROR_NOT_INITIALIZED]
            /\ UNCHANGED storage_state
       ELSE /\ storage_state' = [storage_state EXCEPT
                                   !.pending_changes = 0,
                                   !.total_saves = 0, !.total_loads = 0]
            /\ sop' = [NoSop EXCEPT !.op = "clear_all"]

\* durable once the store is no longer initialised
Downed(d) == IF d.stage = "none" THEN d ELSE [d EXCEPT !.stage = "down"]

\* a deinit that never saves
DeinitDropsPending(pending) == FALSE

\* "Save any pending changes": whether tcl_storage_deinit calls save_all
DeinitFlushes(pending) == pending > 0

tcl_storage_deinit(status) ==
    /\ StorStep
    /\ UNCHANGED <<dir, meta>>
    /\ IF ~storage_state.initialized
       THEN /\ sop' = [NoSop EXCEPT !.op = "deinit",
                                    !.status = TCL_STATUS_ERROR_NOT_INITIALIZED]
            /\ UNCHANGED <<storage_state, durable>>
       ELSE LET flush == DeinitFlushes(storage_state.pending_changes)
                result == IF flush THEN status ELSE TCL_STATUS_OK
                s == IF flush THEN SavedAll(storage_state, status) ELSE storage_state
            IN /\ storage_state' =
                     IF result = TCL_STATUS_OK
                     THEN [s EXCEPT !.initialized = FALSE]
                     ELSE s
               /\ durable' = IF result = TCL_STATUS_OK THEN Downed(durable)
                             ELSE durable
               /\ sop' = [NoSop EXCEPT !.op = "deinit", !.status = result,
                                       !.pending = storage_state.pending_changes,
                                       !.flushed = flush]

\* the process dies and starts again: the statics are as at load time
Restart ==
    /\ storage_state.initialized
    /\ storage_state' = StorageDown
    /\ sop' = [NoSop EXCEPT !.op = "restart"]
    /\ durable' = Downed(durable)
    /\ UNCHANGED <<dir, meta>>
    /\ UNCHANGED <<now, ticks, ops, memVars, multiVars, concVars, keyVars, lifeVars,
                   detVars, auxVars>>

\* a writer that died while staging has left a partial batch_<num>.bin.tmp
StagingLeft(num, w) ==
    /\ StorStep
    /\ ~storage_state.initialized
    /\ w.open /\ ~(w.hdr = 3 /\ w.n = MaxBatch)
    /\ dir' = PutFile(dir, [num |-> num, tmp |-> TRUE, hdr |-> w.hdr,
                            magic |-> TRUE, version |-> BATCH_VERSION,
                            total |-> IF w.hdr = 3 THEN MaxBatch ELSE 0,
                            ents |-> BatchOf(w.n, num), part |-> w.part])
    /\ sop' = [NoSop EXCEPT !.op = "staging", !.num = num, !.tmp = TRUE]
    /\ UNCHANGED <<storage_state, meta, durable>>

\* the header of a batch file goes bad on the medium: a wrong magic, or
\* the version word of a later format
HeaderRot(num, how) ==
    /\ StorStep
    /\ \E f \in dir :
          /\ f.num = num /\ ~f.tmp /\ f.hdr = 3
          /\ dir' = PutFile(dir, IF how = "magic" THEN [f EXCEPT !.magic = FALSE]
                                 ELSE [f EXCEPT !.version = BATCH_VERSION + 1])
    /\ sop' = [NoSop EXCEPT !.op = "rot", !.num = num]
    /\ durable' = NoDurable
    /\ UNCHANGED <<storage_state, meta>>

\* fault: the connection cannot be had, the commands cannot be sent, or the
\* reply to GET meta:version cannot be read
SchemaFaults == {"none", "conn", "cmd", "read"}

tcl_redis_schema_migrate(fault) ==
    /\ StorStep
    /\ UNCHANGED <<dir, storage_state, durable>>
    /\ LET current_version == IF fault = "none" THEN meta.version ELSE 0
           migrate == current_version < TCL_REDIS_SCHEMA_VERSION
           sent == fault \in {"none", "read"}
           seen == [NoSop EXCEPT !.op = "migrate", !.stored = meta.version]
       IN IF fault = "conn"
          THEN /\ sop' = [seen EXCEPT !.status = TCL_STATUS_ERROR_REDIS]
               /\ UNCHANGED meta
          ELSE IF migrate /\ sent
          THEN /\ meta' = [version |-> TCL_REDIS_SCHEMA_VERSION, schemas |-> TRUE]
               /\ sop' = seen
          ELSE /\ UNCHANGED meta
               /\ sop' = [seen EXCEPT !.status = IF fault = "none" THEN TCL_STATUS_OK
                                                  ELSE TCL_STATUS_ERROR_REDIS]

\* the words an uninitialised header variable can hold
Junk == [magic : BOOLEAN, version : {BATCH_VERSION, BATCH_VERSION + 1},
         total : 0 .. MaxBatch]

\* the times a batch file name can carry
Stamps == {k * TickMs : k \in 0 .. MaxTicks}

StorageInit == \E dir_ok \in BOOLEAN, meta_ok \in BOOLEAN :
                tcl_storage_init(dir_ok, meta_ok)
SaveBatch == \E count \in 0 .. MaxBatch : \E w \in SaveProgress(count) :
                tcl_storage_save_batch(count, w)
LoadBatch == \E offset \in 0 .. 1, count \in 1 .. MaxBatch, junk \in Junk,
                alloc_ok \in BOOLEAN :
                tcl_storage_load_batch(offset, count, junk, alloc_ok)
SaveAll == \E status \in FlushOutcomes : tcl_storage_save_all(status)
ClearAll == tcl_storage_clear_all
Deinit == \E status \in FlushOutcomes : tcl_storage_deinit(status)
Staging == \E num \in Stamps : \E w \in SaveProgress(MaxBatch) :
                StagingLeft(num, w)
Rot == \E num \in Stamps, how \in {"magic", "version"} : HeaderRot(num, how)
Migrate == \E fault \in SchemaFaults : tcl_redis_schema_migrate(fault)

InitStore ==
    InitClock /\ InitMemIdle /\ InitMulti /\ InitConc /\ InitStorage /\ InitKey
        /\ InitUp /\ InitDetect /\ InitAux

\* batches written, damaged and loaded again
NextLoad ==
    \/ Tick \/ StorageInit \/ SaveBatch \/ LoadBatch
    \/ Restart \/ Staging \/ Rot
SpecLoad == InitStore /\ [][NextLoad]_vars

\* the life of storage_state and of the schema version
NextFlush ==
    \/ StorageInit \/ SaveBatch \/ SaveAll \/ ClearAll
    \/ Deinit \/ Restart \/ Migrate
SpecFlush == InitStore /\ [][NextFlush]_vars

----------------------------------------------------------------------------
(* The key generator: calls *)

KeyStep ==
    /\ ops < MaxOps
    /\ ops' = ops + 1
    /\ UNCHANGED <<now, ticks, memVars, multiVars, concVars, storVars, lifeVars,
                   detVars, auxVars>>

KeyConfigChoices ==
    [method : {TCL_KEY_METHOD_FNV1A, TCL_KEY_METHOD_MURMUR3},
     normalize_text : BOOLEAN, include_timestamp : BOOLEAN]

\* tcl_key_init(key_config); null stands for config == NULL
tcl_key_init(null, key_config) ==
    /\ KeyStep
    /\ key_gen_state' =
          IF key_gen_state.initialized THEN key_gen_state
          ELSE [initialized |-> TRUE,
                config |-> IF null THEN DefaultKeyConfig ELSE key_config]
    /\ kop' = [NoKop EXCEPT
                 !.op = "key_init",
                 !.status = IF key_gen_state.initialized
                            THEN TCL_STATUS_ERROR_ALREADY_INITIALIZED
                            ELSE TCL_STATUS_OK]
    /\ UNCHANGED kprev

tcl_key_set_method(method) ==
    /\ KeyStep
    /\ key_gen_state' =
          IF key_gen_state.initialized
          THEN [key_gen_state EXCEPT !.config.method = method]
          ELSE key_gen_state
    /\ UNCHANGED <<kop, kprev>>

tcl_key_generate_call(source_text, source_lang, target_lang, buffer_size) ==
    /\ KeyStep
    /\ LET r == tcl_key_generate(key_gen_state, source_text, source_lang,
                                 target_lang, buffer_size, now)
       IN kop' = [op |-> "generate", text |-> source_text,
                  source_lang |-> source_lang, target_lang |-> target_lang,
                  status |-> r.status, key |-> r.key]
    /\ kprev' = kop
    /\ UNCHANGED key_gen_state

\* a buffer too small for any key, and the callers' buffer
KeyBuffers == {TCL_KEY_MAX_LENGTH \div 32, TCL_KEY_MAX_LENGTH}

KeyInit == \/ tcl_key_init(TRUE, DefaultKeyConfig)
           \/ \E key_config \in KeyConfigChoices : tcl_key_init(FALSE, key_config)
KeySetMethod == \E method \in {TCL_KEY_METHOD_FNV1A, TCL_KEY_METHOD_MURMUR3} :
                    tcl_key_set_method(method)
KeyGenerate == \E source_text \in KeyTexts, buffer_size \in KeyBuffers :
                    tcl_key_generate_call(source_text, "en", "fr", buffer_size)

InitKeyGen == InitClock /\ InitMemIdle /\ InitMulti /\ InitExt
NextKey == Tick \/ KeyInit \/ KeySetMethod \/ KeyGenerate
SpecKey == InitKeyGen /\ [][NextKey]_vars

\* every component, from program start
InitLife ==
    InitClock /\ InitDown /\ InitMulti /\ InitConc /\ InitStorageIdle /\ InitKey
        /\ InitDetect /\ InitAux
NextLife ==
    \/ Tick \/ TclInit \/ EmInit \/ LifeSet \/ LifeGet \/ LifeAdd \/ ClearExpired
    \/ KeyInit \/ KeyGenerate \/ StorageInit \/ SaveBatch
SpecLife == InitLife /\ [][NextLife]_vars

----------------------------------------------------------------------------
(* The language detection service.  A text is the sequence of its code     *)
(* points; a confidence is a rational number <<numerator, denominator>>.   *)

RatLess(a, b) == a[1] * b[2] < b[1] * a[2]
RatEq(a, b) == a[1] * b[2] = b[1] * a[2]
RatMin(a, b) == IF RatLess(b, a) THEN b ELSE a
RatMul(a, b) == <<a[1] * b[1], a[2] * b[2]>>
RatAdd(a, b) == <<(a[1] * b[2]) + (b[1] * a[2]), a[2] * b[2]>>
OneMinus(a) == <<a[2] - a[1], a[2]>>

DEFAULT_MIN_CONFIDENCE == <<5, 10>>

\* a, я, あ, the katakana middle dot, 中, a space and the digit 1
DetectChars == {97, 1103, 12354, 12539, 20013, 32, 49}

Repeat(body, times) ==
    [i \in 1 .. (Len(body) * times) |-> body[((i - 1) % Len(body)) + 1]]

\* how often a body is repeated: the lengths reach every step of the
\* detectors' length thresholds
Repeats == {1, 6, 26}
DetectTexts == {Repeat(body, times) :
                    body \in SeqsUpTo(DetectChars, MaxTextLen), times \in Repeats}

\* \d, \s and \p{P} of the regular expressions; \p{P} lists the punctuation
\* below U+0080 and inside the script ranges of the fallback table
IsDigit(c) == c \in 48 .. 57
WhiteSpace == {9, 10, 11, 12, 13, 32, 160, 5760, 8232, 8233, 8239, 8287,
               12288, 65279} \cup (8192 .. 8202)
Punctuation ==
    {33, 34, 35, 37, 38, 39, 40, 41, 42, 44, 45, 46, 47, 58, 59, 63, 64,
     91, 92, 93, 95, 123, 125}
    \cup {1545, 1546, 1548, 1549, 1563, 1565, 1566, 1567, 1748}
    \cup (1642 .. 1645)
    \cup {2404, 2405, 2416}
    \cup {3663, 3674, 3675}
    \cup {12448, 12539}
IsSpace(c) == c \in WhiteSpace
IsPunct(c) == c \in Punctuation

\* LanguageDetectionFallback.SCRIPTS, in the order of the table
SCRIPTS == <<"latin", "cyrillic", "japanese", "korean", "chinese", "arabic",
             "devanagari", "thai">>
InScript(script, c) ==
    CASE script = "latin" -> c \in 65 .. 90 \/ c \in 97 .. 122
      [] script = "cyrillic" -> c \in 1040 .. 1103
      [] script = "japanese" -> c \in 12352 .. 12543
      [] script = "korean" -> c \in 44032 .. 55215 \/ c \in 4352 .. 4607
      [] script = "chinese" -> c \in 19968 .. 40959
      [] script = "arabic" -> c \in 1536 .. 1791
      [] script = "devanagari" -> c \in 2304 .. 2431
      [] script = "thai" -> c \in 3584 .. 3711

Matches(text, P(_)) == \E i \in 1 .. Len(text) : P(text[i])
IsLatin(c) == InScript("latin", c)

\* String.prototype.trim
trim(text) ==
    LET inked == {i \in 1 .. Len(text) : ~IsSpace(text[i])}
    IN IF inked = {} THEN <<>>
       ELSE SubSeq(text, CHOOSE i \in inked : \A j \in inked : i <= j,
                         CHOOSE i \in inked : \A j \in inked : i >= j)

\* analyzeScripts: a Map keeps its keys in the order of their insertion, a
\* script is inserted at the first character it matches
CharCount(text, script) ==
    Cardinality({i \in 1 .. Len(text) : InScript(script, text[i])})
FirstChar(text, script) ==
    CHOOSE i \in 1 .. Len(text) :
        /\ InScript(script, text[i])
        /\ \A j \in 1 .. (i - 1) : ~InScript(script, text[j])
InsertedBefore(text, k, l) ==
    \/ FirstChar(text, SCRIPTS[k]) < FirstChar(text, SCRIPTS[l])
    \/ FirstChar(text, SCRIPTS[k]) = FirstChar(text, SCRIPTS[l]) /\ k < l
analyzeScripts(text) ==
    LET present == {k \in 1 .. Len(SCRIPTS) : CharCount(text, SCRIPTS[k]) > 0}
        place(k) == Cardinality({l \in present : InsertedBefore(text, l, k)}) + 1
    IN [n \in 1 .. Cardinality(present) |->
            LET k == CHOOSE k \in present : place(k) = n
            IN [script |-> SCRIPTS[k], count |-> CharCount(text, SCRIPTS[k])]]

\* for (const [script, count] of stats.entries()) if (count > maxCount) ...
MaxCount(script_stats) ==
    IF script_stats = <<>> THEN 0
    ELSE LET j == CHOOSE j \in 1 .. Len(script_stats) :
                    \A k \in 1 .. Len(script_stats) :
                        script_stats[j].count >= script_stats[k].count
         IN script_stats[j].count
DominantScript(script_stats) ==
    IF script_stats = <<>> THEN ""
    ELSE LET j == CHOOSE j \in 1 .. Len(script_stats) :
                    /\ script_stats[j].count = MaxCount(script_stats)
                    /\ \A k \in 1 .. (j - 1) :
                            script_stats[k].count < script_stats[j].count
         IN script_stats[j].script

ScriptLang(script) ==
    CASE script = "latin" -> "eng"
      [] script = "cyrillic" -> "rus"
      [] script = "japanese" -> "jpn"
      [] script = "korean" -> "kor"
      [] script = "chinese" -> "cmn"
      [] script = "arabic" -> "ara"
      [] script = "devanagari" -> "hin"
      [] script = "thai" -> "tha"
      [] OTHER -> "und"

startsWithLatin(text) == trim(text) # <<>> /\ IsLatin(trim(text)[1])

calculateConfidence(script_stats, totalChars, text) ==
    LET scriptPurity == <<MaxCount(script_stats), totalChars>>
        lengthFactor == IF totalChars > 50 THEN <<15, 100>>
                        ELSE IF totalChars > 20 THEN <<8, 100>>
                        ELSE IF totalChars > 10 THEN <<5, 100>>
                        ELSE <<0, 100>>
        sum == RatAdd(scriptPurity, lengthFactor)
    IN IF /\ DominantScript(script_stats) = "latin"
          /\ \E j \in 1 .. Len(script_stats) : script_stats[j].script = "japanese"
          /\ startsWithLatin(text)
       THEN RatMin(<<9, 10>>, sum)
       ELSE IF totalChars > 30 THEN RatMin(<<95, 100>>, sum)
       ELSE RatMin(<<8, 10>>, sum)

Detected(lang, confidence) ==
    [ok |-> TRUE, error |-> "", detectedLang |-> lang, confidence |-> confidence]
Thrown(error) == [NoResult EXCEPT !.error = error]

detectByScript(text) ==
    IF text = <<>> \/ trim(text) = <<>>
    THEN Detected("eng", <<3, 10>>)
    ELSE IF \A i \in 1 .. Len(text) :
                IsDigit(text[i]) \/ IsSpace(text[i]) \/ IsPunct(text[i])
    THEN Detected("eng", <<3, 10>>)
    ELSE LET script_stats == analyzeScripts(text)
             confidence == calculateConfidence(script_stats, Len(text), text)
         IN Detected(ScriptLang(DominantScript(script_stats)),
                     IF RatLess(<<3, 10>>, confidence) THEN confidence
                     ELSE <<31, 100>>)

\* the primary detector
estimateBaseConfidence(text) ==
    IF Len(text) >= 100 THEN <<95, 100>>
    ELSE IF Len(text) >= 50 THEN <<90, 100>>
    ELSE IF Len(text) >= 20 THEN <<85, 100>>
    ELSE IF Len(text) >= MIN_TEXT_LENGTH THEN <<75, 100>>
    ELSE IF Len(text) >= VERY_SHORT_TEXT_LENGTH THEN <<65, 100>>
    ELSE <<60, 100>>

IsCJK(c) == \/ c \in 19968 .. 40959 \/ c \in 12352 .. 12447
            \/ c \in 12448 .. 12543 \/ c \in 44032 .. 55215
IsKana(c) == c \in 12352 .. 12543
IsHan(c) == c \in 19968 .. 40959
IsHangul(c) == c \in 44032 .. 55215

hasMultipleScripts(text) == Matches(text, IsLatin) /\ Matches(text, IsCJK)

matchesExpectedScript(text, detectedLang) ==
    CASE detectedLang = "jpn" -> Matches(text, IsKana)
      [] detectedLang = "cmn" -> Matches(text, IsHan)
      [] detectedLang = "kor" -> Matches(text, IsHangul)
      [] OTHER -> Matches(text, IsLatin)

estimateScriptConfidence(text, detectedLang) ==
    IF hasMultipleScripts(text) THEN <<7, 10>>
    ELSE IF matchesExpectedScript(text, detectedLang) THEN <<10, 10>>
    ELSE <<8, 10>>

calculateLengthPenalty(text) ==
    IF Len(text) < VERY_SHORT_TEXT_LENGTH THEN <<3, 10>>
    ELSE IF Len(text) < MIN_TEXT_LENGTH THEN <<2, 10>>
    ELSE <<0, 10>>

finalConfidence(text, detectedLang) ==
    RatMin(RatMul(RatMul(estimateBaseConfidence(text),
                         estimateScriptConfidence(text, detectedLang)),
                  OneMinus(calculateLengthPenalty(text))),
           <<99, 100>>)

\* options.minConfidence || this.DEFAULT_MIN_CONFIDENCE
OrDefault(given, minConfidence) ==
    IF given /\ minConfidence[1] # 0 THEN minConfidence ELSE DEFAULT_MIN_CONFIDENCE

\* detected is what franc returns for the text; "throws" if it throws
primaryDetection(text, given, minConfidence, detected) ==
    IF detected = "throws" THEN Thrown("INTERNAL_ERROR")
    ELSE IF detected = "und" THEN Thrown("CONFIDENCE_TOO_LOW")
    ELSE IF RatLess(finalConfidence(text, detected), OrDefault(given, minConfidence))
    THEN Thrown("CONFIDENCE_TOO_LOW")
    ELSE Detected(detected, finalConfidence(text, detected))

\* \p{L}, for the code points of DetectChars
IsLetter(c) == (\E k \in 1 .. Len(SCRIPTS) : InScript(SCRIPTS[k], c)) /\ ~IsPunct(c)
toLowerCase(c) == IF c \in 65 .. 90 THEN c + 32 ELSE c

\* replace(/\s+/g, ' ') and replace(/[^\p{L}\s]/gu, '')
Dropped == 0 - 1
IsKept(c) == c # Dropped
IsLetterOrSpace(c) == IsLetter(c) \/ IsSpace(c)
CollapseSpaces(text) ==
    SelectSeq([i \in 1 .. Len(text) |->
                  IF ~IsSpace(text[i]) THEN text[i]
                  ELSE IF i > 1 /\ IsSpace(text[i - 1]) THEN Dropped ELSE 32],
              IsKept)
KeepLetters(text) == SelectSeq(text, IsLetterOrSpace)

preprocessText(text) ==
    LET trimmed == trim(text)
        lower == [i \in 1 .. Len(trimmed) |-> toLowerCase(trimmed[i])]
    IN KeepLetters(CollapseSpaces(lower))

\* the text that reaches primaryDetection
Prepared(text, textPreprocessing) ==
    IF textPreprocessing THEN preprocessText(text) ELSE text

detectLanguage(text, given, minConfidence, textPreprocessing, detected) ==
    IF text = <<>> THEN Thrown("INVALID_INPUT")
    ELSE primaryDetection(Prepared(text, textPreprocessing), given, minConfidence,
                          detected)

FrancOutcomes == {"und", "eng", "jpn", "throws"}
\* options.minConfidence, when it is given
MinConfidences == {<<0, 10>>, <<9, 10>>}
\* the field of a request without options.minConfidence
Absent == <<0, 10>>

DetectStep == UNCHANGED <<now, ticks, ops, memVars, multiVars, concVars, storVars,
                          keyVars, lifeVars, auxVars>>

\* the request at hand: the text, options.minConfidence (given or absent),
\* options.textPreprocessing and what franc makes of the text
Request(text, given, minConfidence, textPreprocessing, detected) ==
    [NoDop EXCEPT !.text = text, !.given = given, !.minConfidence = minConfidence,
                  !.textPreprocessing = textPreprocessing, !.franc = detected]
SameRequest(d) ==
    Request(d.text, d.given, d.minConfidence, d.textPreprocessing, d.franc)

\* LanguageDetectorImpl.detectLanguage(text, options)
detectLanguage_call(text, given, minConfidence, textPreprocessing, detected) ==
    /\ DetectStep
    /\ LET r == detectLanguage(text, given, minConfidence, textPreprocessing, detected)
       IN dop' = [SameRequest(dop) EXCEPT
                    !.op = "detect",
                    !.final = finalConfidence(Prepared(text, textPreprocessing),
                                              detected),
                    !.calls = <<"primary">>, !.primary = r, !.result = r]

\* LanguageDetectionFallback.detectByScript(text)
detectByScript_call(text) ==
    /\ DetectStep
    /\ dop' = [SameRequest(dop) EXCEPT !.op = "script", !.calls = <<"fallback">>,
                                       !.result = detectByScript(text)]

\* the detectors the handler calls, in the order of the calls
endpoint_calls_both(primary) == <<"primary", "fallback">>
endpoint_calls(primary) ==
    IF primary.ok THEN <<"primary">> ELSE <<"primary", "fallback">>

\* POST /api/detect-language with body {text, options}
detect_language_endpoint(text, given, minConfidence, textPreprocessing, detected) ==
    /\ DetectStep
    /\ IF text = <<>>
       THEN dop' = [SameRequest(dop) EXCEPT !.op = "endpoint", !.status = 400]
       ELSE LET primary == detectLanguage(text, TRUE, OrDefault(given, minConfidence),
                                          textPreprocessing, detected)
                calls == endpoint_calls(primary)
                fallback == calls[Len(calls)] = "fallback"
            IN dop' = [SameRequest(dop) EXCEPT
                         !.op = "endpoint", !.calls = calls, !.status = 200,
                         !.primary = primary,
                         !.method = IF fallback THEN "fallback" ELSE "primary",
                         !.result = IF fallback THEN detectByScript(text)
                                    ELSE primary]

DetectLanguage ==
    detectLanguage_call(dop.text, dop.given, dop.minConfidence,
                        dop.textPreprocessing, dop.franc)
DetectByScript == detectByScript_call(dop.text)
DetectEndpoint ==
    detect_language_endpoint(dop.text, dop.given, dop.minConfidence,
                             dop.textPreprocessing, dop.franc)

\* a request arrives: its inputs are drawn here and the detectors are
\* applied to them
InitRequest ==
    \E text \in DetectTexts, given \in BOOLEAN, minConfidence \in MinConfidences,
       textPreprocessing \in BOOLEAN, detected \in FrancOutcomes :
        /\ given \/ minConfidence = Absent
        /\ dop = Request(text, given, minConfidence, textPreprocessing, detected)
InitDetection ==
    /\ InitClock /\ InitMemIdle /\ InitMulti
    /\ InitConc /\ InitStorageIdle /\ InitKey /\ InitUp /\ InitRequest /\ InitAux
NextDetect == DetectLanguage \/ DetectByScript \/ DetectEndpoint
SpecDetect == InitDetection /\ [][NextDetect]_vars

----------------------------------------------------------------------------
(* The detection cache: the exact-match cache L1 of ld_cache_lookup and    *)
(* ld_cache_update.  A text is its number, its hash being the number too:  *)
(* the hash only guards memcmp.                                            *)

LdTexts == 1 .. NumTexts
LdResults == {1}
l1_capacity == MaxEntries
default_ttl_ms == TickMs
\* ACCESS_COUNT_WEIGHT has no definition in the sources
ACCESS_COUNT_WEIGHT == MsPerSec
LD_STATUS_OK == 0
LD_STATUS_ERROR_MEMORY == 8

\* hash, text_length and memcmp agree.  An entry whose text is NULL keeps
\* the hash of the text it held: memcmp then reads through NULL, and
\* ub_match says what the comparison makes of it
LdMatches(entry, text, ub_match) ==
    /\ entry.hash = text
    /\ IF entry.text = 0 THEN ub_match ELSE entry.text = text

\* the first slot below l1_count that matches; 0 if none
LdFind(s, text, ub_match) ==
    LET hits == {i \in 1 .. Len(s) : LdMatches(s[i], text, ub_match)}
    IN IF hits = {} THEN 0 ELSE CHOOSE i \in hits : \A j \in hits : i <= j

\* timestamp + access_count * ACCESS_COUNT_WEIGHT
adjusted_time(entry) == entry.timestamp + (entry.access_count * ACCESS_COUNT_WEIGHT)

\* the victim scan keeps the first slot strictly below the best so far
lru_index_oldest(s) ==
    CHOOSE i \in 1 .. Len(s) :
        /\ \A j \in 1 .. Len(s) : s[i].timestamp <= s[j].timestamp
        /\ \A j \in 1 .. (i - 1) : s[j].timestamp > s[i].timestamp
lru_index(s) ==
    CHOOSE i \in 1 .. Len(s) :
        /\ \A j \in 1 .. Len(s) : adjusted_time(s[i]) <= adjusted_time(s[j])
        /\ \A j \in 1 .. (i - 1) : adjusted_time(s[j]) > adjusted_time(s[i])

LdStep ==
    /\ ops < MaxOps
    /\ ops' = ops + 1
    /\ UNCHANGED <<now, ticks, memVars, multiVars, concVars, storVars, keyVars,
                   lifeVars, detVars, poolVars>>

\* ld_cache_lookup(text, text_length, result, found); pattern_hit is whether
\* the pattern cache answers a text the exact cache missed
ld_cache_lookup(text, pattern_hit, ub_match) ==
    /\ LdStep
    /\ LET s == ld_state.l1_entries
           i == LdFind(s, text, ub_match)
           called == [NoLop EXCEPT !.op = "lookup", !.text = text]
       IN IF ~ld_state.enable_caching
          THEN /\ UNCHANGED ld_state
               /\ lop' = called
          ELSE IF i # 0 /\ now - s[i].timestamp > default_ttl_ms
          THEN \* expired: the last entry moves into the slot
               /\ ld_state' = [ld_state EXCEPT !.l1_entries = RemoveSlot(s, i)]
               /\ lop' = [called EXCEPT !.found = pattern_hit]
          ELSE IF i # 0
          THEN /\ ld_state' = [ld_state EXCEPT
                                 !.l1_entries[i].timestamp = now,
                                 !.l1_entries[i].access_count = @ + 1]
               /\ lop' = [called EXCEPT !.found = TRUE, !.result = s[i].result]
          ELSE /\ UNCHANGED ld_state
               /\ lop' = [called EXCEPT !.found = pattern_hit]

\* ld_cache_update(text, text_length, result); confident is whether
\* result->confidence reaches min_confidence_for_cache
ld_cache_update(text, result, confident, malloc_ok, ub_match) ==
    /\ LdStep
    /\ LET s == ld_state.l1_entries
           i == LdFind(s, text, ub_match)
           called == [NoLop EXCEPT !.op = "update", !.text = text, !.result = result]
           entry == [text |-> text, hash |-> text, timestamp |-> now,
                     access_count |-> 1, result |-> result]
       IN IF ~ld_state.enable_caching \/ ~confident
          THEN /\ UNCHANGED ld_state
               /\ lop' = called
          ELSE IF i # 0
          THEN /\ ld_state' = [ld_state EXCEPT
                                 !.l1_entries[i].result = result,
                                 !.l1_entries[i].timestamp = now,
                                 !.l1_entries[i].access_count = @ + 1]
               /\ lop' = called
          ELSE IF Len(s) >= l1_capacity
          THEN IF malloc_ok
               THEN /\ ld_state' = [ld_state EXCEPT
                                      !.l1_entries[lru_index(s)] = entry]
                    /\ lop' = [called EXCEPT !.full = TRUE, !.inserted = TRUE]
               ELSE \* the victim's text is freed and its slot keeps the rest
                    /\ ld_state' = [ld_state EXCEPT
                                      !.l1_entries[lru_index(s)].text = 0]
                    /\ lop' = [called EXCEPT !.full = TRUE,
                                             !.status = LD_STATUS_ERROR_MEMORY]
          ELSE IF malloc_ok
               THEN /\ ld_state' = [ld_state EXCEPT !.l1_entries = Append(s, entry)]
                    /\ lop' = [called EXCEPT !.inserted = TRUE]
               ELSE \* the slot beyond l1_count holds the fields of no entry
                    /\ UNCHANGED ld_state
                    /\ lop' = [called EXCEPT !.status = LD_STATUS_ERROR_MEMORY]

\* memcmp reads through NULL only where a slot lost its text
UbChoices(text) ==
    IF \E i \in 1 .. Len(ld_state.l1_entries) :
            ld_state.l1_entries[i].text = 0 /\ ld_state.l1_entries[i].hash = text
    THEN BOOLEAN ELSE {FALSE}

LdLookup ==
    \E text \in LdTexts, pattern_hit \in BOOLEAN :
        \E ub_match \in UbChoices(text) : ld_cache_lookup(text, pattern_hit, ub_match)
LdUpdate ==
    \E text \in LdTexts, result \in LdResults, confident \in BOOLEAN,
       malloc_ok \in BOOLEAN :
        \E ub_match \in UbChoices(text) :
            ld_cache_update(text, result, confident, malloc_ok, ub_match)

InitLdCache ==
    /\ InitClock /\ InitMemIdle /\ InitMulti
    /\ InitConc /\ InitStorageIdle /\ InitKey /\ InitUp /\ InitDetect /\ InitPoolIdle
    /\ \E enable_caching \in BOOLEAN :
            ld_state = [enable_caching |-> enable_caching, l1_entries |-> <<>>]
    /\ lop = NoLop
NextLdCache == Tick \/ LdLookup \/ LdUpdate
SpecLdCache == InitLdCache /\ [][NextLdCache]_vars

\* C34: in the detection cache the exact-match entry count never exceeds
\* l1_capacity, and when a new text is inserted into a full L1 exactly one
\* existing entry is replaced: one with the minimum
\* adjusted_time = last_access + access_count * W.
ReplacedSlots ==
    {i \in 1 .. Len(ld_state.l1_entries) :
        ld_state'.l1_entries[i] # ld_state.l1_entries[i]}
LeastAdjusted(s, i) ==
    \A j \in 1 .. Len(s) :
        s[i].timestamp + (s[i].access_count * ACCESS_COUNT_WEIGHT)
            <= s[j].timestamp + (s[j].access_count * ACCESS_COUNT_WEIGHT)
InsertsIntoFull ==
    /\ lop'.op = "update" /\ ops' = ops + 1 /\ lop'.status = LD_STATUS_OK
    /\ Len(ld_state.l1_entries) = l1_capacity
    /\ \A i \in 1 .. Len(ld_state.l1_entries) : ld_state.l1_entries[i].text # lop'.text
    /\ \E i \in 1 .. Len(ld_state'.l1_entries) : ld_state'.l1_entries[i].text = lop'.text
L1Bounded ==
    /\ Len(ld_state'.l1_entries) <= l1_capacity
    /\ InsertsIntoFull =>
        /\ Len(ld_state'.l1_entries) = Len(ld_state.l1_entries)
        /\ \E i \in 1 .. Len(ld_state.l1_entries) :
            /\ ReplacedSlots = {i}
            /\ ld_state'.l1_entries[i].text = lop'.text
            /\ LeastAdjusted(ld_state.l1_entries, i)
C34_L1BoundedLeastAdjustedReplaced == [][L1Bounded]_vars
\* a full L1 took a new text in place of an entry that is not its oldest
C34_Witness ==
    /\ lop.op = "update" /\ lop.full /\ lop.inserted
    /\ Len(ld_state.l1_entries) = l1_capacity
    /\ \E i, j \in 1 .. Len(ld_state.l1_entries) :
        /\ ld_state.l1_entries[i].text = lop.text
        /\ ld_state.l1_entries[j].access_count > 1
        /\ ld_state.l1_entries[j].timestamp < now

\* C27: for every detection request with non-empty text the primary detector
\* is tried first and the fallback is invoked if and only if the primary
\* failed; the response is labelled 'primary' exactly when the primary
\* succeeded and 'fallback' otherwise.
FallbackCalled == \E i \in 1 .. Len(dop.calls) : dop.calls[i] = "fallback"
C27_FallbackIffPrimaryFails ==
    (dop.op = "endpoint" /\ dop.text # <<>>) =>
        /\ dop.calls # <<>> /\ dop.calls[1] = "primary"
        /\ FallbackCalled <=> ~dop.primary.ok
        /\ (dop.method = "primary") <=> dop.primary.ok
        /\ (dop.method = "fallback") <=> ~dop.primary.ok
C27_Witness ==
    /\ dop.op = "endpoint" /\ dop.text # <<>>
    /\ dop.primary.error = "CONFIDENCE_TOO_LOW"
    /\ dop.calls = <<"primary", "fallback">>
    /\ dop.method = "fallback" /\ dop.result.ok

\* C28: for any non-empty text and any min_confidence in [0, 1] the primary
\* detection returns LowConfidence if and only if final < min_confidence,
\* final = min(base * script * (1 - penalty), 0.99); otherwise it returns a
\* result whose confidence equals final.
LowConfidence == ~dop.result.ok /\ dop.result.error = "CONFIDENCE_TOO_LOW"
C28_LowConfidenceIffBelowThreshold ==
    (dop.op = "detect" /\ dop.text # <<>> /\ dop.given /\ dop.franc # "throws") =>
        /\ LowConfidence <=> RatLess(dop.final, dop.minConfidence)
        /\ ~LowConfidence => /\ dop.result.ok
                             /\ RatEq(dop.result.confidence, dop.final)

\* C29: for any string all of whose characters lie in a single script range
\* of the fallback table the fallback classifier returns the language mapped
\* to that range, with confidence >= 0.3.
InOneRange(text, script) == \A i \in 1 .. Len(text) : InScript(script, text[i])
C29_SingleRangeClassified ==
    \A k \in 1 .. Len(SCRIPTS) :
        (dop.op = "script" /\ dop.text # <<>> /\ InOneRange(dop.text, SCRIPTS[k])) =>
            /\ dop.result.ok
            /\ dop.result.detectedLang = ScriptLang(SCRIPTS[k])
            /\ ~RatLess(dop.result.confidence, <<3, 10>>)

----------------------------------------------------------------------------
(* C1: in every state reachable by memory-tier operations, under every     *)
(* configuration tcl_entry_manager_init accepts, the memory-tier entry     *)
(* count never exceeds max_entries.                                        *)
C1_CountWithinCapacity == entry_count <= config.max_entries

----------------------------------------------------------------------------
\* what tcl_get(text) returns in this state, short of a failed copy
WouldHit(text) ==
    LET idx == tcl_find_entry(entries, tcl_generate_key(text))
    IN idx # 0 /\ ~Expired(entries[idx], now)

InStore(text) == \E i \in 1 .. Len(entries) : entries[i].source_text = text

HistTexts == {hist[i].text : i \in 1 .. Len(hist)}

\* since init exactly max_entries + 1 entries with distinct texts were added,
\* followed by gets only
InsertedOneTooMany ==
    /\ HistValid
    /\ Len(hist) = config.max_entries + 1
    /\ \A i, j \in 1 .. Len(hist) : i # j => hist[i].text # hist[j].text

HistIncreasing == \A i \in 1 .. (Len(hist) - 1) : hist[i].at < hist[i + 1].at
HistLive == \A i \in 1 .. Len(hist) : now - hist[i].at <= hist[i].ttl

(* C4: under LRU with capacity C, after C+1 entries with strictly          *)
(* increasing last_used have been inserted, the entry with the smallest    *)
(* last_used is no longer in the store.                                    *)
C4_LruOldestAbsent ==
    (em_config.policy = TCL_EVICT_LRU /\ InsertedOneTooMany /\ HistIncreasing)
        => ~InStore(hist[1].text)

\* scenario S2: e1 is gone, every later entry is a hit, one eviction counted
S2Outcome ==
    /\ stats.evictions = 1
    /\ ~WouldHit(hist[1].text)
    /\ \A i \in 2 .. Len(hist) : WouldHit(hist[i].text)
    /\ (lastOp.op = "get" /\ lastOp.status # TCL_STATUS_ERROR_MEMORY)
          => lastOp.status = (IF lastOp.text \in (HistTexts \ {hist[1].text})
                              THEN TCL_STATUS_OK ELSE TCL_STATUS_ERROR_NOT_FOUND)

S2Scenario == em_config.policy = TCL_EVICT_LRU /\ InsertedOneTooMany /\ HistLive

(* C5 as claimed: with LRU and max_entries = 2, inserting e1, e2, e3 evicts *)
(* exactly e1 (get e1 NotFound, get e2 and e3 hits, evictions = 1), also    *)
(* with the default eviction_batch_size.                                    *)
C5_EvictsOneWithDefaultBatch ==
    (S2Scenario /\ config.max_entries = 2
       /\ em_config.eviction_batch_size = TCL_DEFAULT_EVICTION_BATCH) => S2Outcome

(* C5 amended: with LRU and eviction_batch_size = 1, inserting             *)
(* max_entries + 1 distinct entries evicts exactly the first one: get of   *)
(* the first is NotFound, get of every other is a hit, evictions = 1.      *)
C5_EvictsOneWithBatchOne ==
    (S2Scenario /\ em_config.eviction_batch_size = 1) => S2Outcome

C5_Witness ==
    /\ S2Scenario /\ em_config.eviction_batch_size = 1
    /\ config.max_entries = MaxEntries
    /\ lastOp.op = "get" /\ lastOp.status = TCL_STATUS_OK

(* C3: after a successful set for k, the next get for k before expiry,     *)
(* with no removal in between, returns the entry just set (source_text,    *)
(* translation, ttl), also when k was already present.                     *)
C3_RoundTrip ==
    (/\ lastOp.op = "get"
     /\ lastOp.exp.source_text # 0
     /\ ~Expired(lastOp.exp, now)
     /\ lastOp.status # TCL_STATUS_ERROR_MEMORY)
        => /\ lastOp.status = TCL_STATUS_OK
           /\ lastOp.out.source_text = lastOp.exp.source_text
           /\ lastOp.out.translation = lastOp.exp.translation
           /\ lastOp.out.ttl = lastOp.exp.ttl

----------------------------------------------------------------------------
(* C2: no get returns a hit for an entry that is expired at the time of    *)
(* the call (now - timestamp > ttl): tcl_get does not, and tcl_get_entry   *)
(* neither returns such an entry from any tier nor promotes it.            *)
C2_NoExpiredHit ==
    /\ (lastOp.op = "get" /\ lastOp.status = TCL_STATUS_OK)
          => ~Expired(lastOp.out, lastOp.at)
    /\ (mop.op = "get" /\ mop.result = TCL_STATUS_OK)
          => ~Expired(mop.out, mop.at)

C7_SetFollowsL1 ==
    mop.op = "set" =>
        /\ (mop.result = TCL_STATUS_OK) <=> (mop.s1 = TCL_STATUS_OK)
        /\ mop.s1 = TCL_STATUS_OK =>
              /\ mop.called2 /\ mop.called3
              /\ l1[mop.key] = mop.arg
        /\ mop.s1 # TCL_STATUS_OK =>
              /\ mop.result = mop.s1
              /\ ~mop.called2 /\ ~mop.called3 /\ mop.kept23

C7_Witness ==
    /\ mop.op = "set" /\ mop.s1 = TCL_STATUS_OK
    /\ mop.s2 = TCL_STATUS_ERROR_REDIS
    /\ mop.result = TCL_STATUS_OK /\ l1[mop.key] = mop.arg

(* C8: on tcl_update_entry an L2 or L3 failure is absorbed: when L1 was    *)
(* updated the call returns success, and an L2 failure does not keep the   *)
(* L3 write from being attempted.                                          *)
C8_UpdateAbsorbsFailures ==
    (/\ mop.op = "update" /\ mop.s1 = TCL_STATUS_OK
     /\ \/ (mop.called2 /\ mop.s2 = TCL_STATUS_ERROR_REDIS)
        \/ (mop.called3 /\ mop.s3 = TCL_STATUS_ERROR_STORAGE))
        => (mop.result = TCL_STATUS_OK /\ mop.called3)

(* C9: in a tcl_get_entry where L1 misses and the L2 read fails, the       *)
(* failure is not a hit: the lookup goes on to L3, returns a hit only if   *)
(* L3 holds the key and NotFound otherwise, and leaves L1 as it was.       *)
C9_FailedRedisReadFallsThrough ==
    (/\ mop.op = "get" /\ mop.s1 # TCL_STATUS_OK /\ mop.called2
     /\ mop.s2 \notin {TCL_STATUS_OK, TCL_STATUS_ERROR_NOT_FOUND})
        => /\ mop.called3
           /\ mop.result = (IF mop.s3 = TCL_STATUS_OK THEN TCL_STATUS_OK
                            ELSE TCL_STATUS_ERROR_NOT_FOUND)
           /\ mop.result = TCL_STATUS_OK => (mop.l3had /\ mop.out = l3[mop.key])
           /\ ~mop.l3had => mop.result = TCL_STATUS_ERROR_NOT_FOUND
           /\ mop.result # TCL_STATUS_OK => mop.l1kept

C9_Witness ==
    /\ mop.op = "get" /\ mop.s1 = TCL_STATUS_ERROR_NOT_FOUND
    /\ mop.s2 \in {TCL_STATUS_ERROR_REDIS, TCL_STATUS_ERROR_INVALID_FORMAT}
    /\ mop.result = TCL_STATUS_OK /\ mop.out = l3[mop.key]

(* C10: tcl_delete_entry is idempotent: a second delete of k right after a *)
(* successful one leaves the three tiers as they are and does not fail     *)
(* because k is absent.                                                    *)
C10_SecondDeleteSucceeds ==
    (mop.op = "delete" /\ mop.again /\ mop.clean)
        => (mop.result = TCL_STATUS_OK /\ mop.l1kept /\ mop.kept23)

(* C11: tcl_delete_entry removes the key from all three tiers: afterwards  *)
(* the key is absent from every tier whose own delete did not fail, and a  *)
(* failure at L1 or L2 does not leave the key in a slower tier whose       *)
(* delete would have succeeded.                                            *)
C11_DeleteClearsEveryTier ==
    mop.op = "delete" =>
        /\ Tolerated(mop.s1) => l1[mop.key].key = 0
        /\ (mop.called2 /\ Tolerated(mop.s2)) => l2[mop.key].e.key = 0
        /\ (mop.called3 /\ Tolerated(mop.s3)) => l3[mop.key].key = 0
        /\ mop.would3 => l3[mop.key].key = 0

----------------------------------------------------------------------------
\* no caller is inside a call
Quiet == \A t \in Threads : thread[t].pc = "idle"

\* caller t is inside tcl_set and has taken its slot
InSet(t) == thread[t].pc \in {"s_strings", "s_meta", "s_load", "s_store"}

\* caller t is inside tcl_get and holds cached_entry
InGet(t) == thread[t].pc \in {"g_check", "g_load", "g_store"}

\* all the fields tcl_set writes are in place
Populated(e) ==
    e.source_text # 0 /\ e.translation # 0 /\ e.ttl # 0 /\ e.usage_count # 0

(* C12: no usage_count increment of parallel tcl_get hits is lost: once    *)
(* the callers have returned, an entry that n gets have hit has a          *)
(* usage_count n above the 1 it was stored with, and its last_used is the  *)
(* time of one of those gets.                                              *)
C12_NoLostIncrement ==
    Quiet =>
        \A i \in 1 .. ecount :
            Populated(slots[i]) =>
                /\ slots[i].usage_count = 1 + slots[i].hits
                /\ slots[i].last_used >= slots[i].timestamp
                /\ slots[i].last_used <= now

(* C13: with parallel tcl_set calls on a store at or near capacity the     *)
(* eviction and the insertion act as one critical section: entry_count     *)
(* never exceeds max_entries and no two calls write the same slot.         *)
C13_SetIsCriticalSection ==
    /\ ecount <= config.max_entries
    /\ ecount + 1 >= config.max_entries =>
          \A t1, t2 \in Threads :
              (t1 # t2 /\ InSet(t1) /\ InSet(t2)) => thread[t1].idx # thread[t2].idx

(* C14: a tcl_get that runs in parallel with a set, an eviction or an      *)
(* expiry removal never holds a partially inserted or partially removed    *)
(* entry: the entry behind its cached_entry has all its fields populated.  *)
C14_GetSeesWholeEntries ==
    \A t \in Threads : InGet(t) => Populated(slots[thread[t].idx])

----------------------------------------------------------------------------
\* the committed batch files and the staging files of the directory
Bins == {f \in dir : ~f.tmp}
Tmps == {f \in dir : f.tmp}

\* the file the last load opened
Opened == CHOOSE f \in dir : f.num = sop.num /\ f.tmp = sop.tmp

\* the last call was a load that got as far as the directory scan
Loading ==
    sop.op = "load" /\ sop.status # TCL_STATUS_ERROR_NOT_INITIALIZED

\* the header of f is short, or has a wrong magic or version
BadHeader(f) == f.hdr < 3 \/ ~f.magic \/ f.version # BATCH_VERSION

\* the entries a load of [offset, offset + count) is to return from f
Requested(f, offset, n) ==
    IF offset >= Len(f.ents) THEN <<>>
    ELSE SubSeq(f.ents, offset + 1, Min(offset + n, Len(f.ents)))

(* C15: a batch is visible under its batch_<n>.bin name only once it is    *)
(* completely written: after tcl_storage_save_batch, also after one that   *)
(* met a write error, the directory holds no batch_<n>.bin of that call    *)
(* with an incomplete batch.                                               *)
C15_NoPartialBatchFile ==
    sop.op = "save" =>
        \A f \in Bins : f.num = sop.num => Intact(f)

(* C16: with a partial .tmp staging file left in the directory by a crash, *)
(* the loader ignores it, whatever number its name carries, and loads the  *)
(* last committed batch intact.                                            *)
C16_LoaderIgnoresStaging ==
    (/\ Loading /\ Tmps # {}
     /\ Bins # {} /\ \A f \in Bins : Intact(f) /\ f.num > 0)
        => /\ ~sop.tmp
           /\ \A f \in Bins : f.num <= sop.num
           /\ sop.out = Requested(Opened, sop.offset, sop.count)

(* C17: when the newest batch file has a corrupted header (short, wrong    *)
(* magic, unsupported version) the loader skips it without failing, and an *)
(* older intact batch of the directory is loaded.                          *)
C17_CorruptHeaderSkipped ==
    (/\ Loading /\ Tmps = {}
     /\ \E f \in Bins : /\ BadHeader(f) /\ \A g \in Bins : g.num <= f.num
     /\ \E g \in Bins : Intact(g) /\ g.num > 0)
        => /\ sop.status # TCL_STATUS_ERROR_INVALID_FORMAT
           /\ \E g \in Bins :
                 /\ Intact(g) /\ g.num = sop.num
                 /\ sop.out = Requested(g, sop.offset, sop.count)

(* C18: when the selected batch file is truncated in the middle of an      *)
(* entry the loader stops at the last intact entry: the loaded count is    *)
(* the number of complete entries and no entry built from a short read is  *)
(* returned.                                                               *)
C18_TruncatedStopsAtLastIntact ==
    (/\ Loading /\ sop.status # TCL_STATUS_ERROR_NOT_FOUND /\ ~sop.tmp
     /\ ~BadHeader(Opened) /\ Opened.part /\ Len(Opened.ents) < Opened.total)
        => /\ sop.loaded = Len(Requested(Opened, sop.offset, sop.count))
           /\ \A i \in 1 .. Len(sop.out) : sop.out[i] # TornEntry

(* C19: tcl_storage_deinit with pending_changes > 0 flushes before the     *)
(* store becomes uninitialised: the store is never uninitialised with      *)
(* pending_changes > 0, and when the flush fails deinit returns the error  *)
(* and keeps the pending changes.                                          *)
C19_DeinitFlushesPending ==
    /\ ~storage_state.initialized => storage_state.pending_changes = 0
    /\ (sop.op = "deinit" /\ sop.pending > 0) =>
          /\ sop.flushed
          /\ sop.status = TCL_STATUS_OK =>
                (~storage_state.initialized /\ storage_state.pending_changes = 0)
          /\ sop.status # TCL_STATUS_OK =>
                (/\ storage_state.initialized
                 /\ storage_state.pending_changes = sop.pending)

C19_Witness ==
    /\ sop.op = "deinit" /\ sop.pending > 0 /\ sop.flushed
    /\ sop.status = TCL_STATUS_ERROR_STORAGE
    /\ storage_state.initialized /\ storage_state.pending_changes = sop.pending

(* C20: when the stored schema version is above the one the code supports, *)
(* migration refuses to start: it returns an error to the caller and       *)
(* leaves the stored version and data untouched.                           *)
C20_NewerSchemaRefused ==
    (sop.op = "migrate" /\ sop.stored > TCL_REDIS_SCHEMA_VERSION)
        => /\ sop.status # TCL_STATUS_OK
           /\ meta.version = sop.stored

----------------------------------------------------------------------------
\* C22: every get that returns NotFound raises the reported misses by
\* one: tcl_get as tcl_get_stats reports them, tcl_get_entry as
\* tcl_get_metrics reports them.
MissesAfterGet ==
    /\ (/\ lastOp'.op = "get" /\ ops' = ops + 1
         /\ lastOp'.status = TCL_STATUS_ERROR_NOT_FOUND)
           => tcl_get_stats(stats', Len(entries')).misses
                = tcl_get_stats(stats, Len(entries)).misses + 1
    /\ (/\ mop'.op = "get" /\ ops' = ops + 1
         /\ mop'.result = TCL_STATUS_ERROR_NOT_FOUND)
           => tcl_get_metrics(metrics').misses
                = tcl_get_metrics(metrics).misses + 1

C22_NotFoundCountsOneMiss == [][MissesAfterGet]_vars
----------------------------------------------------------------------------
\* C23: every entry the memory tier holds has last_used >= timestamp and
\* usage_count >= 1, whatever metadata the caller of tcl_set supplied.
C23_MetadataWellFormed ==
    \A i \in 1 .. entry_count :
        entries[i].source_text # 0
            => /\ entries[i].last_used >= entries[i].timestamp
               /\ entries[i].usage_count >= 1
----------------------------------------------------------------------------
\* C24: requests whose source texts differ after normalization never share
\* an entry, even with one key: a get that hits returns an entry that was
\* stored for the same normalized text.
C24_CollidingTextsKeptApart ==
    (lastOp.op = "get" /\ lastOp.status = TCL_STATUS_OK)
        => normalize_text(TextBytes(lastOp.out.source_text), TCL_KEY_MAX_LENGTH)
            = normalize_text(TextBytes(lastOp.text), TCL_KEY_MAX_LENGTH)

----------------------------------------------------------------------------
KeyPair == kop.op = "generate" /\ kprev.op = "generate"
                /\ kop.status = TCL_STATUS_OK /\ kprev.status = TCL_STATUS_OK
                /\ kop.source_lang = kprev.source_lang
                /\ kop.target_lang = kprev.target_lang
KeysAgree ==
    /\ kop.text = kprev.text => kop.key = kprev.key
    /\ (/\ key_gen_state.config.normalize_text
        /\ kop.text = normalize_text(kprev.text, TCL_KEY_MAX_LENGTH))
            => kop.key = kprev.key

\* C25 (as stated): two calls of tcl_key_generate for the same text and
\* language pair produce the same key, and with normalize_text enabled the
\* key of the normalized text is the key of the text.
C25_KeyDeterministic == KeyPair => KeysAgree

\* C25 (amended): the same, while include_timestamp is disabled.
C25_KeyDeterministicNoTimestamp ==
    (KeyPair /\ ~key_gen_state.config.include_timestamp) => KeysAgree

C25_Witness ==
    /\ KeyPair /\ ~key_gen_state.config.include_timestamp
    /\ key_gen_state.config.normalize_text
    /\ kop.text # kprev.text
    /\ kop.text = normalize_text(kprev.text, TCL_KEY_MAX_LENGTH)
    /\ kop.key = kprev.key
----------------------------------------------------------------------------
\* a tcl_get step whose lookup finds an entry that has expired
FindsExpired ==
    /\ lastOp'.op = "get" /\ ops' = ops + 1
    /\ LET idx == tcl_find_entry(entries, tcl_generate_key(lastOp'.text))
       IN idx # 0 /\ Expired(entries[idx], now)

\* C30: a lookup that finds an expired entry removes it and returns
\* NotFound: the entry count decreases by one, the key is no longer
\* present, and every slot below the entry count holds a populated entry.
RemovesExpired ==
    FindsExpired
        => /\ lastOp'.status = TCL_STATUS_ERROR_NOT_FOUND
           /\ Len(entries') = Len(entries) - 1
           /\ tcl_find_entry(entries', tcl_generate_key(lastOp'.text)) = 0
           /\ \A i \in 1 .. Len(entries') : entries'[i].source_text # 0

C30_ExpiredLookupRemoves == [][RemovesExpired]_vars
----------------------------------------------------------------------------
AlreadyUp(status) == status = TCL_STATUS_ERROR_ALREADY_INITIALIZED
NotUp(status) == status = TCL_STATUS_ERROR_NOT_INITIALIZED

\* a second init is refused and changes nothing
SecondInitRefused ==
    /\ (lastOp' # lastOp /\ lastOp'.op = "tcl_init" /\ initialized.tcl_state)
          => AlreadyUp(lastOp'.status) /\ UNCHANGED <<entries, stats, config>>
    /\ (/\ lastOp' # lastOp /\ lastOp'.op = "em_init"
        /\ initialized.entry_manager_state)
          => AlreadyUp(lastOp'.status) /\ UNCHANGED <<entries, stats, em_config>>
    /\ (kop' # kop /\ kop'.op = "key_init" /\ key_gen_state.initialized)
          => AlreadyUp(kop'.status) /\ UNCHANGED key_gen_state
    /\ (sop' # sop /\ sop'.op = "storage_init" /\ storage_state.initialized)
          => AlreadyUp(sop'.status) /\ UNCHANGED <<storage_state, dir, meta>>

\* any other call before init is refused and changes nothing
EarlyCallRefused ==
    /\ (lastOp' # lastOp /\ lastOp'.op \in {"get", "set"} /\ ~initialized.tcl_state)
          => NotUp(lastOp'.status) /\ UNCHANGED <<entries, stats, config>>
    /\ (/\ lastOp' # lastOp /\ lastOp'.op \in {"add", "evict", "clear_expired"}
        /\ ~initialized.entry_manager_state)
          => NotUp(lastOp'.status) /\ UNCHANGED <<entries, stats, em_config>>
    /\ (kop' # kop /\ kop'.op = "generate" /\ ~key_gen_state.initialized)
          => NotUp(kop'.status) /\ UNCHANGED key_gen_state
    /\ (sop' # sop /\ sop'.op = "save" /\ ~storage_state.initialized)
          => NotUp(sop'.status) /\ UNCHANGED <<storage_state, dir, meta>>

\* C26: for the cache, the entry manager, the key generator and the
\* durable store, a second init returns AlreadyInitialized and leaves
\* configuration and contents unchanged, and every other operation called
\* before init returns NotInitialized and changes no state.
C26_LifecycleMisuseRefused == [][SecondInitRefused /\ EarlyCallRefused]_vars
\* C31: an eviction harvests expired entries first and uses the configured
\* policy only for the shortfall: no live entry is evicted by a batch while
\* an expired entry that the batch did not remove remains in the store.
CopiesOf(s, e) == Cardinality({i \in 1 .. Len(s) : s[i] = e})
EvictsLive ==
    \E i \in 1 .. Len(entries) :
        /\ entries[i].source_text # 0
        /\ ~Expired(entries[i], now)
        /\ CopiesOf(entries', entries[i]) < CopiesOf(entries, entries[i])
LeavesExpired ==
    \E i \in 1 .. Len(entries') :
        /\ entries'[i].source_text # 0
        /\ Expired(entries'[i], now)
ExpiredHarvestedFirst ==
    (ops' = ops + 1 /\ lastOp'.op \in {"add", "evict"}) =>
        ~(EvictsLive /\ LeavesExpired)
C31_ExpiredHarvestedFirst == [][ExpiredHarvestedFirst]_vars


\* C32: when a hit at a slower tier is promoted to a faster tier the
\* promoted copy expires no later than the source entry: it is written with
\* the source entry's remaining ttl, not with the full or a fresh ttl.
Promoted == mop.op = "get" /\ mop.result = TCL_STATUS_OK /\ mop.s1 # TCL_STATUS_OK
ExpiresAt(e) == e.timestamp + e.ttl
C32_PromotedCopyExpiresNoLater ==
    Promoted =>
        /\ l1[mop.key] = mop.out => ExpiresAt(l1[mop.key]) <= ExpiresAt(mop.out)
        /\ l2[mop.key].e = mop.out => l2[mop.key].expire_at <= ExpiresAt(mop.out)

\* C33: on a live hit with auto_extend_ttl enabled and the entry's residual
\* ttl below the threshold the entry's ttl is increased by ttl_extension_ms;
\* with auto_extend_ttl disabled a hit leaves the ttl unchanged.  Whatever
\* the threshold, a residual ttl of 0 is below it.
LiveHit == ops' = ops + 1 /\ lastOp'.op = "get" /\ lastOp'.status = TCL_STATUS_OK
HitSlot == tcl_find_entry(entries, tcl_generate_key(lastOp'.text))
Residual(e, t) == e.ttl - (t - e.timestamp)
HitExtendsTtl ==
    LiveHit =>
        /\ (em_config.auto_extend_ttl /\ Residual(entries[HitSlot], now) = 0)
              => entries'[HitSlot].ttl = entries[HitSlot].ttl + em_config.ttl_extension_ms
        /\ ~em_config.auto_extend_ttl
              => entries'[HitSlot].ttl = entries[HitSlot].ttl
C33_HitExtendsTtl == [][HitExtendsTtl]_vars

----------------------------------------------------------------------------
(* Redis adapter: the connection pool of redis_state (tcl_redis.c).
   redis_env counts what the adapter holds outside redis_state: the
   connections redis_connect opened and redis_disconnect has not closed,
   and the pool blocks calloc returned and free has not released. *)

\* the configurations tcl_redis_init is called with
RedisConfigs == {[host |-> 1, port |-> 1, pool_size |-> n] : n \in 1..NumThreads}

\* a slot of the calloc'ed pool
NoConn == [context |-> FALSE, in_use |-> FALSE]

InUse(s) == Cardinality({i \in DOMAIN s.pool : s.pool[i].in_use})
Connected(s) == Cardinality({i \in DOMAIN s.pool : s.pool[i].context})

tcl_redis_deinit(s, env) ==
    IF ~s.initialized
    THEN [status |-> TCL_STATUS_ERROR_NOT_INITIALIZED, state |-> s, env |-> env]
    ELSE [status |-> TCL_STATUS_OK,
          state |-> [s EXCEPT !.pool = <<>>, !.initialized = FALSE],
          env |-> [open |-> env.open - Connected(s), pools |-> env.pools - 1]]

\* is_null: config == NULL; calloc_ok: calloc returned a block;
\* connected: how many redis_connect calls succeed before one fails
tcl_redis_init(s, env, cfg, is_null, calloc_ok, connected) ==
    IF s.initialized
    THEN [status |-> TCL_STATUS_ERROR_ALREADY_INITIALIZED, state |-> s, env |-> env]
    ELSE IF is_null
    THEN [status |-> TCL_STATUS_ERROR_INVALID_PARAM, state |-> s, env |-> env]
    ELSE LET stored == [s EXCEPT !.config = cfg, !.pool_size = cfg.pool_size]
         IN IF ~calloc_ok
            THEN [status |-> TCL_STATUS_ERROR_MEMORY,
                  state |-> [stored EXCEPT !.pool = <<>>], env |-> env]
            ELSE LET partial ==
                       [stored EXCEPT !.pool =
                          [i \in 1..cfg.pool_size |->
                             IF i <= connected
                             THEN [context |-> TRUE, in_use |-> FALSE]
                             ELSE NoConn]]
                     grown == [open |-> env.open + connected,
                               pools |-> env.pools + 1]
                 IN IF connected < cfg.pool_size
                    THEN LET d == tcl_redis_deinit(partial, grown)
                         IN [status |-> TCL_STATUS_ERROR_REDIS,
                             state |-> d.state, env |-> d.env]
                    ELSE [status |-> TCL_STATUS_OK,
                          state |-> [partial EXCEPT !.initialized = TRUE],
                          env |-> grown]

\* the first connected slot that is not in use
tcl_redis_get_connection(s) ==
    LET idle == {i \in DOMAIN s.pool : s.pool[i].context /\ ~s.pool[i].in_use}
    IN IF ~s.initialized
       THEN [status |-> TCL_STATUS_ERROR_NOT_INITIALIZED, slot |-> 0, state |-> s]
       ELSE IF idle = {}
       THEN [status |-> TCL_STATUS_ERROR_REDIS, slot |-> 0, state |-> s]
       ELSE LET i == CHOOSE i \in idle : \A j \in idle : i <= j
            IN [status |-> TCL_STATUS_OK, slot |-> i,
                state |-> [s EXCEPT !.pool[i].in_use = TRUE]]

tcl_redis_return_connection(s, i) == [s EXCEPT !.pool[i].in_use = FALSE]

\* tcl_redis_format_key's status when the key does not fit the buffer
FormatKeyStatus(format_ok) ==
    IF format_ok THEN TCL_STATUS_OK ELSE TCL_STATUS_ERROR_INVALID_PARAM

PoolStep(op, status) ==
    /\ ops < MaxOps
    /\ ops' = ops + 1
    /\ rop' = [op |-> op, status |-> status, before |-> redis_state,
               env |-> redis_env]
    /\ UNCHANGED <<now, ticks, memVars, l1, l3, metrics, faults, promo, mop,
                   concVars, storVars, keyVars, lifeVars, detVars, ldVars>>

\* the connection handling of tcl_redis_cache_get around its GET
redis_cache_get(key, format_ok, fault) ==
    LET c == tcl_redis_get_connection(redis_state)
        r == tcl_redis_cache_get(l2, key, fault, now)
    IN /\ UNCHANGED <<l2, redis_env>>
       /\ IF c.status # TCL_STATUS_OK
          THEN redis_state' = redis_state /\ PoolStep("get", c.status)
          ELSE IF ~format_ok
          THEN redis_state' = c.state /\ PoolStep("get", FormatKeyStatus(format_ok))
          ELSE /\ redis_state' = tcl_redis_return_connection(c.state, c.slot)
               /\ PoolStep("get", r.status)

\* the connection handling of tcl_redis_cache_set around its SETEX
redis_cache_set(key, format_ok, serialize_ok, fault) ==
    LET c == tcl_redis_get_connection(redis_state)
        e == [key |-> key, translation |-> 1, timestamp |-> now, ttl |-> MultiTtl]
        w == tcl_redis_cache_set(l2, e, fault, now)
    IN /\ UNCHANGED redis_env
       /\ IF c.status # TCL_STATUS_OK
          THEN /\ redis_state' = redis_state /\ l2' = l2
               /\ PoolStep("set", c.status)
          ELSE IF ~format_ok
          THEN /\ redis_state' = c.state /\ l2' = l2
               /\ PoolStep("set", FormatKeyStatus(format_ok))
          ELSE IF ~serialize_ok
          THEN /\ redis_state' = tcl_redis_return_connection(c.state, c.slot)
               /\ l2' = l2
               /\ PoolStep("set", TCL_STATUS_ERROR_MEMORY)
          ELSE /\ redis_state' = tcl_redis_return_connection(c.state, c.slot)
               /\ l2' = w.l2
               /\ PoolStep("set", w.status)

\* the connection handling of tcl_redis_cache_delete around its DEL
redis_cache_delete(key, format_ok, fault) ==
    LET c == tcl_redis_get_connection(redis_state)
        w == tcl_redis_cache_delete(l2, key, fault)
    IN /\ UNCHANGED redis_env
       /\ IF c.status # TCL_STATUS_OK
          THEN /\ redis_state' = redis_state /\ l2' = l2
               /\ PoolStep("delete", c.status)
          ELSE IF ~format_ok
          THEN /\ redis_state' = c.state /\ l2' = l2
               /\ PoolStep("delete", FormatKeyStatus(format_ok))
          ELSE /\ redis_state' = tcl_redis_return_connection(c.state, c.slot)
               /\ l2' = w.l2
               /\ PoolStep("delete", w.status)

\* tcl_redis_schema_restore: deinit, copy the backup over the RDB file,
\* init again with tcl_redis_config_t config = {0}
tcl_redis_schema_restore(s, env, enable_persistence, copy_ok, calloc_ok) ==
    IF ~enable_persistence
    THEN [status |-> TCL_STATUS_ERROR_INVALID_PARAM, state |-> s, env |-> env]
    ELSE LET d == tcl_redis_deinit(s, env)
         IN IF ~copy_ok
            THEN [status |-> TCL_STATUS_ERROR_INTERNAL, state |-> d.state, env |-> d.env]
            ELSE tcl_redis_init(d.state, d.env, NoRedisConfig, FALSE, calloc_ok, 0)

PoolFaults == {"none", "cmd"}

RedisInit ==
    \E cfg \in RedisConfigs, is_null \in BOOLEAN, calloc_ok \in BOOLEAN :
      \E connected \in 0..cfg.pool_size :
        LET r == tcl_redis_init(redis_state, redis_env, cfg, is_null, calloc_ok,
                                connected)
        IN /\ redis_state' = r.state
           /\ redis_env' = r.env
           /\ l2' = l2
           /\ PoolStep("init", r.status)
RedisDeinit ==
    LET r == tcl_redis_deinit(redis_state, redis_env)
    IN /\ redis_state' = r.state
       /\ redis_env' = r.env
       /\ l2' = l2
       /\ PoolStep("deinit", r.status)
RedisGet == \E key \in Keys, format_ok \in BOOLEAN, fault \in PoolFaults \cup {"parse"} :
              redis_cache_get(key, format_ok, fault)
RedisSet == \E key \in Keys, format_ok \in BOOLEAN, serialize_ok \in BOOLEAN,
               fault \in PoolFaults :
              redis_cache_set(key, format_ok, serialize_ok, fault)
RedisDelete == \E key \in Keys, format_ok \in BOOLEAN, fault \in PoolFaults :
              redis_cache_delete(key, format_ok, fault)
SchemaRestore ==
    \E enable_persistence \in BOOLEAN, copy_ok \in BOOLEAN, calloc_ok \in BOOLEAN :
      LET r == tcl_redis_schema_restore(redis_state, redis_env, enable_persistence,
                                        copy_ok, calloc_ok)
      IN /\ redis_state' = r.state
         /\ redis_env' = r.env
         /\ l2' = l2
         /\ PoolStep("restore", r.status)

NextPool == Tick \/ RedisInit \/ RedisDeinit \/ RedisGet \/ RedisSet
            \/ RedisDelete \/ SchemaRestore
SpecPool == InitMultiLevel /\ [][NextPool]_vars

\* C35: after tcl_redis_cache_get, tcl_redis_cache_set or
\* tcl_redis_cache_delete returns, on any exit path, as many connections are
\* in use as before the call
C35_ConnectionReturnedOnEveryPath ==
    rop.op \in {"get", "set", "delete"} => InUse(redis_state) = InUse(rop.before)

\* C36: a tcl_redis_init that fails on a connection leaves no connection of
\* the attempt open and no pool block allocated
C36_FailedInitReleasesAll ==
    rop.op = "init" /\ rop.status = TCL_STATUS_ERROR_REDIS => redis_env = rop.env

\* C40: after tcl_redis_schema_restore returns, an adapter that was
\* initialised is initialised with the configuration it had
C40_RestoreKeepsAdapter ==
    rop.op = "restore" /\ rop.before.initialized
      => redis_state.initialized /\ redis_state.config = rop.before.config

----------------------------------------------------------------------------
(* tcl_entry_extend_ttl (tcl_redis_schema.c): entry->ttl += extension_ms on
   uint32_t operands.  A 32-bit value is a pair <<high 16 bits, low 16 bits>>
   wherever it can exceed the model's integers. *)

U32(n) == <<n \div Half, n % Half>>
\* a + b mod 2^32
AddU32(a, b) ==
    LET low == a[2] + b[2]
    IN << (a[1] + b[1] + (low \div Half)) % Half, low % Half >>
\* the pairs an entry's ttl field of the model can hold
FitsTtl(a) == a[1] < Half \div 2
FromU32(a) == a[1] * Half + a[2]

UINT32_MAX == <<Half - 1, Half - 1>>
\* extension_ms: none, one clock advance, the largest value
Extensions == {U32(0), U32(TickMs), UINT32_MAX}

tcl_entry_extend_ttl(text, extension_ms) ==
    LET idx == tcl_find_entry(entries, tcl_generate_key(text))
        ext == [NoOp EXCEPT !.op = "extend_ttl", !.text = text, !.at = now]
    IN /\ MemStep
       /\ hist' = HistPoison
       /\ UNCHANGED stats
       /\ IF idx = 0
          THEN /\ UNCHANGED <<entries, fresh>>
               /\ lastOp' = [ext EXCEPT !.status = TCL_STATUS_ERROR_NOT_FOUND]
          ELSE LET sum == AddU32(U32(entries[idx].ttl), extension_ms)
               IN /\ FitsTtl(sum)
                  /\ entries' = [entries EXCEPT ![idx].ttl = FromU32(sum)]
                  /\ fresh' = NoFresh
                  /\ lastOp' = [ext EXCEPT !.exp = entries[idx]]

ExtendTtl == \E text \in Texts, extension_ms \in Extensions :
                tcl_entry_extend_ttl(text, extension_ms)

NextTtl == Tick \/ EntryAdd \/ Get \/ ExtendTtl
SpecTtl == InitM /\ [][NextTtl]_vars

Extends == ops' = ops + 1 /\ lastOp'.op = "extend_ttl"
ExtendedSlot == tcl_find_entry(entries, tcl_generate_key(lastOp'.text))
NeverShortens ==
    Extends =>
        IF ExtendedSlot = 0
        THEN /\ lastOp'.status = TCL_STATUS_ERROR_NOT_FOUND
             /\ entries' = entries
        ELSE entries'[ExtendedSlot].ttl >= entries[ExtendedSlot].ttl
\* C37: tcl_entry_extend_ttl leaves the ttl of an existing key at least what
\* it was, and for an absent key returns NotFound and changes nothing
C37_ExtendNeverShortens == [][NeverShortens]_vars

----------------------------------------------------------------------------
(* The durable store cleared and read again *)

NextClear == Tick \/ StorageInit \/ SaveBatch \/ LoadBatch \/ ClearAll
SpecClear == InitStore /\ [][NextClear]_vars

LoadAfterClear ==
    /\ sop.op = "clear_all" /\ sop.status = TCL_STATUS_OK
    /\ ops' = ops + 1 /\ sop'.op = "load"
EmptyAfterClear ==
    LoadAfterClear =>
        /\ sop'.status \in {TCL_STATUS_ERROR_NOT_FOUND, TCL_STATUS_ERROR_EMPTY}
        /\ sop'.loaded = 0
\* C38: the tcl_storage_load_batch that follows a successful
\* tcl_storage_clear_all returns NotFound or Empty and no entries
C38_LoadAfterClearIsEmpty == [][EmptyAfterClear]_vars

SavedBatch == ops' = ops + 1 /\ sop'.op = "save" /\ sop'.status = TCL_STATUS_OK
AddsBatchFile ==
    SavedBatch => dir \subseteq dir' /\ Cardinality(dir') = Cardinality(dir) + 1
\* C39: a successful tcl_storage_save_batch adds one batch file to the
\* directory and leaves every file that was there as it was
C39_SaveNeverOverwrites == [][AddsBatchFile]_vars

====
